---- MODULE Spec2Model ----
(***************************************************************************)
(* Timeline tracks of the profiler UI: ThreadTrack and GpuTrack            *)
(* (src/OrbitGl/ThreadTrack.cpp, src/OrbitGl/GpuTrack.cpp, GpuTrack.h).    *)
(*                                                                         *)
(* A track keeps a std::map<int, shared_ptr<TimerChain>> timers_ from      *)
(* depth to an append-only chain of text boxes, the counters num_timers_,  *)
(* min_time_, max_time_, depth_, and a collapse toggle.  OnTimer ingests   *)
(* one timer; UpdatePrimitives projects the visible window to boxes and    *)
(* lines; GetTimers / GetFirstAfterTime / GetFirstBeforeTime query it.     *)
(***************************************************************************)
EXTENDS Integers, Sequences, FiniteSets, TLC

(***************************************************************************)
(* Bounds of the model.                                                    *)
(***************************************************************************)
MaxTimers == 2      \* OnTimer calls per behaviour
MaxDepth == 1       \* timer depths range over 0..MaxDepth

(***************************************************************************)
(* Widths of the machine integers, scaled down so that TLC can hold them:  *)
(* TickType is uint64_t and depth is uint32_t in the source.               *)
(***************************************************************************)
TickBits == 5
DepthBits == 4
UInt8Bits == 3
TickTypeMax == 2^TickBits - 1       \* std::numeric_limits<TickType>::max()
TickTypeMin == 0                    \* std::numeric_limits<TickType>::min()
TickMod == 2^TickBits
UInt32Mod == 2^DepthBits
UInt8Mod == 2^UInt8Bits

Null == 0                           \* nullptr / an empty shared_ptr

VARIABLES
  track,        \* "ThreadTrack" or "GpuTrack": the class of this track
  timers_,      \* std::map<int, shared_ptr<TimerChain>>: key -> chain handle
  chains,       \* the heap of TimerChains: handle -> sequence of TimerInfo
  num_timers_,
  min_time_,
  max_time_,
  depth_,
  collapsed,    \* collapse_toggle_.IsCollapsed()
  canvas,       \* what the canvas and the time graph report: the pixel width,
                \* the time window in ticks, the time graph's minimum tick
  calls,        \* ghost: the TimerInfos passed to OnTimer, in call order
  snap,         \* ghost: the last GetTimers() result and what it saw
  passes,       \* ghost: what the last UpdatePrimitives passes handed to the
                \* batcher, since the last OnTimer and for one visible window
  mutex_,       \* the thread that holds the track's Mutex, or "free"
  ingest,       \* the ingestion thread: its position in OnTimer and its locals
  render,       \* the render thread: its position in GetTimers and its locals
  capture,      \* Capture::GSelectedTextBox and Capture::GVisibleFunctionsMap
  nav,          \* ghost: the last navigation call, its box and its result
  pm,           \* the PickingManager, the Pickables it was handed and, as
                \* ghosts, the colours it issued and its last operation
  texts         \* TextBox::GetText() of the boxes whose text is not empty

indexVars == <<timers_, chains, num_timers_, min_time_, max_time_>>
threadVars == <<mutex_, ingest, render>>
vars == <<track, timers_, chains, num_timers_, min_time_, max_time_, depth_,
          collapsed, canvas, calls, snap, passes, mutex_, ingest, render,
          capture, nav, pm, texts>>

kNone == "kNone"
kCoreActivity == "kCoreActivity"
kGpuActivity == "kGpuActivity"
kIntrospection == "kIntrospection"
kSwQueueString == "sw queue"
kHwExecutionString == "hw execution"

(* The ticks at which the timers of the index start and end. *)
Ticks == 0..2

(* The timers a track of class t is fed. *)
TimerInfos(t) ==
  { ti \in [start : Ticks, end : Ticks, depth : 0..MaxDepth,
            type : IF t = "ThreadTrack" THEN {kNone, kCoreActivity}
                                        ELSE {kGpuActivity},
            stage : IF t = "ThreadTrack" THEN {""}
                                         ELSE {kSwQueueString, kHwExecutionString},
            function_address : {1}, thread_id : {1}] :
      ti.start <= ti.end }

(* Timers of one depth over a longer stretch of ticks, for the passes      *)
(* whose outcome is decided within one depth.                              *)
WideTicks == 0..4

FlatTimerInfos(t) ==
  { ti \in [start : WideTicks, end : WideTicks, depth : {0},
            type : IF t = "ThreadTrack" THEN {kNone} ELSE {kGpuActivity},
            stage : IF t = "ThreadTrack" THEN {""}
                                         ELSE {kSwQueueString, kHwExecutionString},
            function_address : {1}, thread_id : {1}] :
      ti.start <= ti.end }

(* Timers of every GPU stage and of two functions, one tick span, for the  *)
(* passes whose outcome is the colour.  "" is the stage of a key the       *)
(* string manager does not resolve, "vsync" one that is not recognized.    *)
kHwQueueString == "hw queue"

ColorTimerInfos(t) ==
  [start : {0}, end : {2}, depth : {0, 1},
   type : IF t = "ThreadTrack" THEN {kNone, kCoreActivity} ELSE {kGpuActivity},
   stage : IF t = "ThreadTrack" THEN {""}
           ELSE {"", "vsync", kSwQueueString, kHwQueueString, kHwExecutionString},
   function_address : {1, 2}, thread_id : {1}]

(* Timers of this and of another thread or timeline, at the least and the  *)
(* greatest depth a uint32_t holds, for the navigation.                    *)
NavTimerInfos(t) ==
  [start : {0, 2}, end : {2}, depth : {0, 1, UInt32Mod - 1},
   type : IF t = "ThreadTrack" THEN {kNone} ELSE {kGpuActivity},
   stage : IF t = "ThreadTrack" THEN {""} ELSE {kHwExecutionString, "gfx"},
   function_address : {1},
   thread_id : IF t = "ThreadTrack" THEN {1, 2} ELSE {1}]

(***************************************************************************)
(* std::map<int, ...> with a uint32_t depth used as the key.               *)
(***************************************************************************)
IntKey(depth) ==
  LET d == depth % UInt32Mod
  IN IF d >= UInt32Mod \div 2 THEN d - UInt32Mod ELSE d

MapPut(m, k, v) ==
  [x \in DOMAIN m \cup {k} |-> IF x = k THEN v ELSE m[x]]

RECURSIVE SortedSeq(_)
SortedSeq(S) ==
  IF S = {} THEN <<>>
  ELSE LET lo == CHOOSE x \in S : \A y \in S : x <= y
       IN <<lo>> \o SortedSeq(S \ {lo})

(* Iteration order of the map: ascending key. *)
MapKeys(m) == SortedSeq(DOMAIN m)

(* timers_.find(depth): the handle, or Null when the key is absent. *)
GetTimersAt(depth) ==
  LET k == IntKey(depth)
  IN IF k \in DOMAIN timers_ THEN timers_[k] ELSE Null

(* Mutant: the handles in the order the chains were created. *)
GetTimers_CreationOrder ==
  LET hs == SortedSeq({timers_[k] : k \in DOMAIN timers_})
  IN hs

(* GetTimers(): the handles in map order. *)
HandlesOf(m) ==
  LET ks == MapKeys(m)
  IN [i \in 1..Len(ks) |-> m[ks[i]]]

GetTimers == HandlesOf(timers_)

Chain(h) == IF h = Null THEN <<>> ELSE chains[h]

(***************************************************************************)
(* OnTimer                                                                 *)
(***************************************************************************)
UpdateDepth(depth) == IF depth > depth_ THEN depth ELSE depth_

(* Mutant: the bound follows the end of the timer. *)
NewMinTime_FromEnd(ti) == IF ti.end < min_time_ THEN ti.end ELSE min_time_

NewMinTime(ti) == IF ti.start < min_time_ THEN ti.start ELSE min_time_

NewMaxTime(ti) == IF ti.end > max_time_ THEN ti.end ELSE max_time_

(* Mutant: a new chain is made and stored on every call. *)
AppendToChain_AlwaysNew(ti) ==
  /\ timers_' = MapPut(timers_, IntKey(ti.depth), Len(chains) + 1)
  /\ chains' = Append(chains, <<ti>>)

(* timers_[depth] then, when it is null, make_shared and store; push_back. *)
AppendToChain(ti) ==
  LET k == IntKey(ti.depth)
      h == GetTimersAt(ti.depth)
  IN IF h = Null
       THEN /\ timers_' = MapPut(timers_, k, Len(chains) + 1)
            /\ chains' = Append(chains, <<ti>>)
       ELSE /\ timers_' = timers_
            /\ chains' = [chains EXCEPT ![h] = Append(@, ti)]

(* Ingestion order: starts do not decrease within one depth. *)
InOrder(ti) ==
  LET c == Chain(GetTimersAt(ti.depth))
  IN IF c = <<>> THEN TRUE ELSE c[Len(c)].start <= ti.start

ThreadTrack_OnTimer(ti) ==
  /\ track = "ThreadTrack"
  /\ depth_' = IF ti.type # kCoreActivity THEN UpdateDepth(ti.depth + 1) ELSE depth_
  /\ AppendToChain(ti)
  /\ num_timers_' = num_timers_ + 1
  /\ min_time_' = NewMinTime(ti)
  /\ max_time_' = NewMaxTime(ti)
  /\ calls' = Append(calls, ti)

GpuTrack_OnTimer(ti) ==
  /\ track = "GpuTrack"
  /\ depth_' = depth_
  /\ AppendToChain(ti)
  /\ num_timers_' = num_timers_ + 1
  /\ min_time_' = NewMinTime(ti)
  /\ max_time_' = NewMaxTime(ti)
  /\ calls' = Append(calls, ti)

(***************************************************************************)
(* GetFirstAfterTime / GetFirstBeforeTime: a linear scan of the chain, in  *)
(* block order and then element order.  A TextBox pointer is the pair of   *)
(* its chain handle and its position in the chain; NoBox is nullptr.       *)
(***************************************************************************)
NoBox == <<Null, 0>>

RECURSIVE ScanAfter(_, _, _, _)
ScanAfter(h, c, k, time) ==
  IF k > Len(c) THEN NoBox
  ELSE IF c[k].start > time THEN <<h, k>>
  ELSE ScanAfter(h, c, k + 1, time)

(* Mutant: the scan stops at start >= time. *)
GetFirstAfterTime_GE(time, depth) ==
  LET h == GetTimersAt(depth)
  IN IF h = Null THEN NoBox ELSE ScanAfter(h, Chain(h), 1, time - 1)

GetFirstAfterTime(time, depth) ==
  LET h == GetTimersAt(depth)
  IN IF h = Null THEN NoBox ELSE ScanAfter(h, Chain(h), 1, time)

(* text_box is the box remembered so far; the scan that runs off the end   *)
(* of the chain returns nullptr.                                           *)
RECURSIVE ScanBefore(_, _, _, _, _)
ScanBefore(h, c, k, time, text_box) ==
  IF k > Len(c) THEN NoBox
  ELSE IF c[k].start > time THEN text_box
  ELSE ScanBefore(h, c, k + 1, time, <<h, k>>)

GetFirstBeforeTime(time, depth) ==
  LET h == GetTimersAt(depth)
  IN IF h = Null THEN NoBox ELSE ScanBefore(h, Chain(h), 1, time, NoBox)

TimerInfoOf(box) == chains[box[1]][box[2]]

(***************************************************************************)
(* GetLeft / GetRight / GetUp / GetDown.                                   *)
(***************************************************************************)
(* thread_id_ of a ThreadTrack. *)
thread_id_ == 1

(* timeline_hash_ of a GpuTrack.  A user_data_key is held as the string it *)
(* resolves to, so the hash of the timeline is the timeline's name.        *)
timeline_hash_ == "gfx"

(* The test GetLeft and GetRight make before they look at the bucket. *)
IsOfThisTrack(ti) ==
  IF track = "ThreadTrack" THEN ti.thread_id = thread_id_
  ELSE ti.stage = timeline_hash_

(* TimerChain::GetElementBefore / GetElementAfter: the neighbour of the    *)
(* box in its chain, nullptr at the ends and for a box of another chain.   *)
GetElementBefore(h, text_box) ==
  IF text_box[1] = h /\ text_box[2] > 1 THEN <<h, text_box[2] - 1>> ELSE NoBox

GetElementAfter(h, text_box) ==
  IF text_box[1] = h /\ text_box[2] < Len(chains[h])
    THEN <<h, text_box[2] + 1>> ELSE NoBox

(* Mutant: a box without a predecessor is its own left neighbour. *)
GetLeft_Self(text_box) ==
  LET timer_info == TimerInfoOf(text_box)
      timers == GetTimersAt(timer_info.depth)
  IN IF IsOfThisTrack(timer_info) /\ timers # Null
       THEN IF GetElementBefore(timers, text_box) = NoBox THEN text_box
            ELSE GetElementBefore(timers, text_box)
       ELSE NoBox

GetLeft(text_box) ==
  LET timer_info == TimerInfoOf(text_box)
      timers == GetTimersAt(timer_info.depth)
  IN IF IsOfThisTrack(timer_info) /\ timers # Null
       THEN GetElementBefore(timers, text_box) ELSE NoBox

GetRight(text_box) ==
  LET timer_info == TimerInfoOf(text_box)
      timers == GetTimersAt(timer_info.depth)
  IN IF IsOfThisTrack(timer_info) /\ timers # Null
       THEN GetElementAfter(timers, text_box) ELSE NoBox

(* timer_info.depth() - 1 and + 1 are computed in uint32_t. *)
GetUp(text_box) ==
  LET timer_info == TimerInfoOf(text_box)
  IN GetFirstBeforeTime(timer_info.start, (timer_info.depth - 1) % UInt32Mod)

GetDown(text_box) ==
  LET timer_info == TimerInfoOf(text_box)
  IN GetFirstAfterTime(timer_info.start, (timer_info.depth + 1) % UInt32Mod)

(***************************************************************************)
(* GetTimers(): the caller keeps the handles; snap also remembers the      *)
(* content each chain had when the handles were copied.                    *)
(***************************************************************************)
SnapshotOf(hs) ==
  [taken |-> TRUE, handles |-> hs,
   contents |-> [i \in 1..Len(hs) |-> Chain(hs[i])]]

TakeSnapshot == snap' = SnapshotOf(GetTimers)

NoSnap == [taken |-> FALSE, handles |-> <<>>, contents |-> <<>>]

(***************************************************************************)
(* TimerChain is a chain of fixed-capacity blocks; a block keeps the       *)
(* smallest start and the greatest end of its boxes.  The chain is held    *)
(* flat: block b is positions (b-1)*BlockSize+1 .. b*BlockSize.            *)
(***************************************************************************)
BlockSize == 2

BlockOf(k) == (k - 1) \div BlockSize + 1
BlockStart(b) == (b - 1) * BlockSize + 1
BlockEnd(c, b) == IF b * BlockSize < Len(c) THEN b * BlockSize ELSE Len(c)

(* TimerBlock::Intersects(min, max) *)
BlockIntersects(c, b, min, max) ==
  LET ks == BlockStart(b)..BlockEnd(c, b)
  IN /\ \E k \in ks : \A j \in ks : c[k].end >= c[j].end /\ min <= c[k].end
     /\ \E k \in ks : \A j \in ks : c[k].start <= c[j].start /\ max >= c[k].start

(***************************************************************************)
(* GetTimerColor.  A colour is <<R, G, B, A>>.                             *)
(***************************************************************************)
kInactiveColor == <<100, 100, 100, 255>>
kSelectionColor == <<0, 128, 255, 255>>
kOddAlpha == 210
(* time_graph_->GetThreadColor(thread_id): the palette's colour of the thread *)
GetThreadColor == canvas.thread_color

EvenDepthAlpha(ti, color) ==
  IF ti.depth % 2 = 0 THEN <<color[1], color[2], color[3], kOddAlpha>> ELSE color

(* Mutant: the inactive flag is looked at before the selection. *)
ThreadTrack_GetTimerColor_InactiveFirst(ti, is_selected, inactive) ==
  IF inactive THEN kInactiveColor
  ELSE IF is_selected THEN kSelectionColor
  ELSE EvenDepthAlpha(ti, GetThreadColor)

ThreadTrack_GetTimerColor(ti, is_selected, inactive) ==
  IF is_selected THEN kSelectionColor
  ELSE IF inactive THEN kInactiveColor
  ELSE EvenDepthAlpha(ti, GetThreadColor)

(* Mutant: "hw queue" is not recognized. *)
GpuStageCoeff_NoHwQueue(stage) ==
  IF stage = kSwQueueString THEN 50 ELSE 100

(* coeff in hundredths; static_cast<uint8_t>(coeff * channel) truncates *)
GpuStageCoeff(stage) ==
  IF stage = kSwQueueString THEN 50
  ELSE IF stage = kHwQueueString THEN 75
  ELSE 100

GpuTrack_GetTimerColor(ti, is_selected, inactive) ==
  IF is_selected THEN kSelectionColor
  ELSE IF inactive THEN kInactiveColor
  ELSE LET c == GetThreadColor
           k == GpuStageCoeff(ti.stage)
       IN EvenDepthAlpha(ti, <<(k * c[1]) \div 100, (k * c[2]) \div 100,
                               (k * c[3]) \div 100, c[4]>>)

(***************************************************************************)
(* UpdatePrimitives.                                                       *)
(*                                                                         *)
(* Screen coordinates are kept exact instead of as floats: x and w are the *)
(* start and the duration in ticks (world x and width are their images     *)
(* under the fixed scale world_width / time window), a vertical offset     *)
(* below the track's top is the fraction mult/div of one text box height,  *)
(* and a primitive's height is 1/hdiv of one text box height.              *)
(***************************************************************************)
(* uint64_t pixel_delta_in_ticks = MicrosecondsToTicks(window) / width.    *)
(* An integer division by a width of 0 is undefined: the build either      *)
(* traps there (DivisionFaults) or goes on with some quotient, which the   *)
(* canvas of such a build carries as quotient_by_zero.                     *)
DivisionFaults == canvas.width = 0 /\ canvas.division_traps

PixelDeltaInTicks ==
  IF canvas.width = 0 THEN canvas.quotient_by_zero
  ELSE canvas.window \div canvas.width

(* Mutant: a record exactly one pixel long is a box too. *)
IsVisibleWidth_OnePixel(ti) ==
  (ti.end - ti.start) * canvas.width >= canvas.window

(* normalized_length * canvas->getWidth() > 1 *)
IsVisibleWidth(ti) == (ti.end - ti.start) * canvas.width > canvas.window

(* ThreadTrack::GetYFromDepth(track_y, depth, collapsed), with the depth_  *)
(* of the moment: box_height is divided by depth_ while collapsed.         *)
ThreadTrack_GetYFromDepth(cur_depth, depth, is_collapsed) ==
  [mult |-> depth + 1,
   div |-> IF is_collapsed /\ cur_depth > 0 THEN cur_depth ELSE 1]

(* The free GetYFromDepth of GpuTrack.cpp: track_y - height * (depth + 1). *)
GpuTrack_GetYFromDepth(depth) == [mult |-> depth + 1, div |-> 1]

(* box_height of ThreadTrack::UpdatePrimitives, computed before the loop. *)
ThreadTrack_BoxHeightDiv(is_collapsed) ==
  IF is_collapsed /\ depth_ > 0 THEN depth_ ELSE 1

(* The number of rows of ThreadTrack::GetHeight: depth, the factor of the  *)
(* text-box height.  A collapsed track with timers has one row.            *)
ThreadTrack_GetHeightDepth(is_collapsed) ==
  LET collapsed_depth == IF num_timers_ = 0 THEN 0 ELSE 1
  IN IF is_collapsed THEN collapsed_depth ELSE depth_

(* The number of rows of GpuTrack::GetHeight: collapsed ? 1 : GetDepth(). *)
GpuTrack_GetHeightDepth(is_collapsed) == IF is_collapsed THEN 1 ELSE depth_

GetHeightDepth(is_collapsed) ==
  IF track = "ThreadTrack" THEN ThreadTrack_GetHeightDepth(is_collapsed)
  ELSE GpuTrack_GetHeightDepth(is_collapsed)

(* The pixel-aligned ignore window of a drawn line, in uint64_t arithmetic. *)
MinIgnoreOf(ti) ==
  LET m == canvas.min_timegraph_tick
      p == PixelDeltaInTicks
  IN (m + (((ti.start - m) % TickMod) \div p) * p) % TickMod

(* Mutant: the pixel's width is not added. *)
MaxIgnoreOf_NoWidth(ti) == MinIgnoreOf(ti)

(* Mutant: the window is two pixels wide. *)
MaxIgnoreOf_TwoPixels(ti) == (MinIgnoreOf(ti) + 2 * PixelDeltaInTicks) % TickMod

MaxIgnoreOf(ti) == (MinIgnoreOf(ti) + PixelDeltaInTicks) % TickMod

(* is_inactive of ThreadTrack::UpdatePrimitives.  visible_functions is the *)
(* set of addresses GVisibleFunctionsMap maps to a function; the lookup of *)
(* any other address finds or makes a null entry.                          *)
IsInactive(ti) ==
  /\ capture.visible_functions # {}
  /\ ti.function_address \notin capture.visible_functions

(* The text of a box: the label and the elapsed time it was formatted     *)
(* from, or NoText for the empty string a TextBox is made with.            *)
NoText == <<>>

GetText(ts, b) == IF b \in DOMAIN ts THEN ts[b] ELSE NoText

SetText(ts, b, text) ==
  IF text = NoText THEN [c \in DOMAIN ts \ {b} |-> ts[c]]
  ELSE [c \in DOMAIN ts \cup {b} |-> IF c = b THEN text ELSE ts[c]]

(* Mutant: the text is formatted again at every call. *)
TextIsEmpty_Always(ts, b) == TRUE

(* text_box->GetText().empty() *)
TextIsEmpty(ts, b) == GetText(ts, b) = NoText

(* ThreadTrack::SetTimesliceText and GpuTrack::SetTimesliceText: the text  *)
(* is set when it is empty.  ThreadTrack names the function found in       *)
(* GSelectedFunctionsMap, or else the string of an introspection timer, or *)
(* else logs an error and leaves the text empty.                           *)
SetTimesliceText(ts, ti, b) ==
  LET time == ti.end - ti.start
  IN IF ~TextIsEmpty(ts, b) THEN ts
     ELSE IF track = "GpuTrack" THEN SetText(ts, b, <<ti.stage, time>>)
     ELSE IF ti.function_address \in capture.selected_functions
       THEN SetText(ts, b, <<"name", time>>)
     ELSE IF ti.type = kIntrospection THEN SetText(ts, b, <<ti.stage, time>>)
     ELSE ts

(* Mutant: the collapsed track draws every stage. *)
FilteredByStage_Never(ti, is_collapsed) == FALSE

(* if (is_collapsed) { if (gpu_stage != kHwExecutionString) continue; } of  *)
(* GpuTrack::UpdatePrimitives; ThreadTrack has no such test.               *)
FilteredByStage(ti, is_collapsed) ==
  track = "GpuTrack" /\ is_collapsed /\ ti.stage # kHwExecutionString

(* The body of the loop over one block's boxes, for the box at chain h,    *)
(* position k.  st is the running state of the pass: depth_, the ignore    *)
(* window and the primitives handed to the batcher so far.                 *)
VisitBox(st, h, k, a) ==
  LET ti == chains[h][k]
      cur_depth == IF ti.depth + 1 > st.depth THEN ti.depth + 1 ELSE st.depth
      is_visible_width == IsVisibleWidth(ti)
      timer_depth == IF a.is_collapsed THEN 0 ELSE ti.depth % UInt8Mod
      y == IF track = "ThreadTrack"
             THEN ThreadTrack_GetYFromDepth(cur_depth, ti.depth, a.is_collapsed)
             ELSE GpuTrack_GetYFromDepth(timer_depth)
      is_selected == (<<h, k>> = capture.selected_text_box)
      is_inactive == IsInactive(ti)
      color == IF track = "ThreadTrack"
                 THEN ThreadTrack_GetTimerColor(ti, is_selected, is_inactive)
                 ELSE GpuTrack_GetTimerColor(ti, is_selected, FALSE)
      prim == [box |-> <<h, k>>, is_box |-> is_visible_width,
               x |-> ti.start,
               w |-> IF is_visible_width THEN ti.end - ti.start ELSE 0,
               y |-> y,
               hdiv |-> IF track = "ThreadTrack" THEN a.box_height_div ELSE 1,
               color |-> color]
  IN IF a.min_tick > ti.end \/ a.max_tick < ti.start THEN st
     ELSE IF ti.start >= st.min_ignore /\ ti.end <= st.max_ignore THEN st
     ELSE IF FilteredByStage(ti, a.is_collapsed)
       THEN [st EXCEPT !.depth = cur_depth]
     ELSE IF is_visible_width
       THEN [st EXCEPT !.depth = cur_depth, !.prims = Append(@, prim),
                       !.texts = IF a.is_collapsed THEN @
                                 ELSE SetTimesliceText(@, ti, <<h, k>>)]
     ELSE IF PixelDeltaInTicks # 0
       THEN [depth |-> cur_depth, prims |-> Append(st.prims, prim),
             texts |-> st.texts,
             min_ignore |-> MinIgnoreOf(ti), max_ignore |-> MaxIgnoreOf(ti)]
     ELSE [st EXCEPT !.depth = cur_depth, !.prims = Append(@, prim)]

(* Mutant: the ignore window is carried into the next block. *)
ResetIgnore_Carried(st) == st

(* min_ignore = max(), max_ignore = min() at the start of a block. *)
ResetIgnore(st) ==
  [st EXCEPT !.min_ignore = TickTypeMax, !.max_ignore = TickTypeMin]

(* The loop over the blocks of one chain, from position k on. *)
RECURSIVE VisitChain(_, _, _, _)
VisitChain(st, h, k, a) ==
  LET c == chains[h]
      b == BlockOf(k)
  IN IF k > Len(c) THEN st
     ELSE IF ~BlockIntersects(c, b, a.min_tick, a.max_tick)
       THEN VisitChain(st, h, BlockEnd(c, b) + 1, a)
     ELSE IF k = BlockStart(b)
       THEN VisitChain(VisitBox(ResetIgnore(st), h, k, a), h, k + 1, a)
     ELSE VisitChain(VisitBox(st, h, k, a), h, k + 1, a)

(* The loop over chains_by_depth. *)
RECURSIVE VisitChains(_, _, _, _)
VisitChains(st, hs, i, a) ==
  IF i > Len(hs) THEN st
  ELSE IF hs[i] = Null THEN VisitChains(st, hs, i + 1, a)
  ELSE VisitChains(VisitChain(st, hs[i], 1, a), hs, i + 1, a)

(* One pass: the final depth_ and the primitives handed to the batcher. *)
UpdatePrimitivesOver(chains_by_depth, min_tick, max_tick) ==
  VisitChains([depth |-> depth_, prims |-> <<>>, texts |-> texts,
               min_ignore |-> TickTypeMax, max_ignore |-> TickTypeMin],
              chains_by_depth, 1,
              [min_tick |-> min_tick, max_tick |-> max_tick,
               is_collapsed |-> collapsed,
               box_height_div |-> ThreadTrack_BoxHeightDiv(collapsed)])

UpdatePrimitives(min_tick, max_tick) ==
  UpdatePrimitivesOver(GetTimers, min_tick, max_tick)

(* passes keeps the last keep passes made for one window since the last    *)
(* OnTimer; a pass for another window starts it again.                     *)
LogPass(min_tick, max_tick, prims, keep) ==
  LET e == [is_collapsed |-> collapsed, min_tick |-> min_tick,
            max_tick |-> max_tick, prims |-> prims]
      log == IF passes # <<>> /\ passes[1].min_tick = min_tick
                              /\ passes[1].max_tick = max_tick
               THEN Append(passes, e) ELSE <<e>>
  IN IF Len(log) > keep THEN Tail(log) ELSE log

(***************************************************************************)
(* OnTimer and GetTimers statement by statement, for an ingestion thread   *)
(* and a render thread on one track.  A thread whose position starts with  *)
(* in_ is inside an operation on the std::map timers_.                     *)
(***************************************************************************)
NoTimerInfo ==
  [start |-> 0, end |-> 0, depth |-> 0, type |-> kNone, stage |-> "",
   function_address |-> 1, thread_id |-> 1]

IdleIngest == [pc |-> "idle", timer_info |-> NoTimerInfo, timer_chain |-> Null]

IdleRender == [pc |-> "idle", depth |-> 0, result |-> Null]

(* OnTimer is entered: UpdateDepth, the TextBox is made, and the thread    *)
(* enters timers_[timer_info.depth()].  No lock is taken.                  *)
OnTimer_EnterWith(timer_infos) ==
  /\ ingest.pc = "idle"
  /\ Len(calls) < MaxTimers
  /\ \E ti \in timer_infos :
       /\ InOrder(ti)
       /\ depth_' = IF track = "ThreadTrack" /\ ti.type # kCoreActivity
                      THEN UpdateDepth(ti.depth + 1) ELSE depth_
       /\ ingest' = [pc |-> "in_index", timer_info |-> ti, timer_chain |-> Null]
  /\ UNCHANGED <<capture, nav, pm, texts>>
  /\ UNCHANGED <<track, indexVars, collapsed, canvas, calls, snap, passes,
                 mutex_, render>>

OnTimer_Enter ==
  ingest.pc = "idle" /\ OnTimer_EnterWith(TimerInfos(track))

(* The map as operator[] leaves it: an absent key is inserted with nullptr. *)
IndexedMap(depth) ==
  IF IntKey(depth) \in DOMAIN timers_ THEN timers_
  ELSE MapPut(timers_, IntKey(depth), Null)

(* timer_chain = timers_[depth] returns. *)
OnTimer_Index ==
  /\ ingest.pc = "in_index"
  /\ LET h == GetTimersAt(ingest.timer_info.depth)
     IN /\ timers_' = IndexedMap(ingest.timer_info.depth)
        /\ ingest' = [ingest EXCEPT !.timer_chain = h,
                                    !.pc = IF h = Null THEN "in_store" ELSE "push"]
  /\ UNCHANGED <<capture, nav, pm, texts>>
  /\ UNCHANGED <<track, chains, num_timers_, min_time_, max_time_, depth_,
                 collapsed, canvas, calls, snap, passes, mutex_, render>>

(* make_shared<TimerChain>() and timers_[depth] = timer_chain return. *)
OnTimer_Store ==
  /\ ingest.pc = "in_store"
  /\ chains' = Append(chains, <<>>)
  /\ timers_' = MapPut(timers_, IntKey(ingest.timer_info.depth), Len(chains) + 1)
  /\ ingest' = [ingest EXCEPT !.timer_chain = Len(chains) + 1, !.pc = "push"]
  /\ UNCHANGED <<capture, nav, pm, texts>>
  /\ UNCHANGED <<track, num_timers_, min_time_, max_time_, depth_,
                 collapsed, canvas, calls, snap, passes, mutex_, render>>

(* push_back, the counter and the bounds; OnTimer returns. *)
OnTimer_Push ==
  /\ ingest.pc = "push"
  /\ chains' = [chains EXCEPT ![ingest.timer_chain] = Append(@, ingest.timer_info)]
  /\ num_timers_' = num_timers_ + 1
  /\ min_time_' = NewMinTime(ingest.timer_info)
  /\ max_time_' = NewMaxTime(ingest.timer_info)
  /\ calls' = Append(calls, ingest.timer_info)
  /\ passes' = <<>>
  /\ ingest' = IdleIngest
  /\ UNCHANGED <<capture, nav, pm, texts>>
  /\ UNCHANGED <<track, timers_, depth_, collapsed, canvas, snap, mutex_, render>>

(* The ingestion thread is inside an operation that changes the map. *)
IngestWritesMap ==
  \/ ingest.pc = "in_store"
  \/ /\ ingest.pc = "in_index"
     /\ IntKey(ingest.timer_info.depth) \notin DOMAIN timers_

(* What a read of the map can find: the map, and during an unsynchronized  *)
(* change of it also the map as the change leaves it.                      *)
MapsSeen ==
  IF ingest.pc = "in_index" THEN {timers_, IndexedMap(ingest.timer_info.depth)}
  ELSE IF ingest.pc = "in_store"
    THEN {timers_, MapPut(timers_, IntKey(ingest.timer_info.depth), Null)}
  ELSE {timers_}

(* GetTimers(): ScopeLock lock(mutex_), and the loop over the map begins. *)
GetTimers_Lock ==
  /\ render.pc = "idle"
  /\ mutex_ = "free"
  /\ mutex_' = "render"
  /\ render' = [IdleRender EXCEPT !.pc = "in_iterate"]
  /\ UNCHANGED <<capture, nav, pm, texts>>
  /\ UNCHANGED <<track, indexVars, depth_, collapsed, canvas, calls, snap,
                 passes, ingest>>

(* The loop over timers_ has copied the handles. *)
GetTimers_Iterate ==
  /\ render.pc = "in_iterate"
  /\ \E m \in MapsSeen : snap' = SnapshotOf(HandlesOf(m))
  /\ render' = [render EXCEPT !.pc = "unlock"]
  /\ UNCHANGED <<capture, nav, pm, texts>>
  /\ UNCHANGED <<track, indexVars, depth_, collapsed, canvas, calls, passes,
                 mutex_, ingest>>

(* GetTimers(depth): ScopeLock lock(mutex_), and timers_.find begins. *)
GetTimersAt_Lock ==
  /\ render.pc = "idle"
  /\ mutex_ = "free"
  /\ mutex_' = "render"
  /\ \E d \in 0..MaxDepth : render' = [IdleRender EXCEPT !.pc = "in_find", !.depth = d]
  /\ UNCHANGED <<capture, nav, pm, texts>>
  /\ UNCHANGED <<track, indexVars, depth_, collapsed, canvas, calls, snap,
                 passes, ingest>>

(* timers_.find(depth) returns. *)
GetTimersAt_Find ==
  /\ render.pc = "in_find"
  /\ \E m \in MapsSeen :
       render' = [render EXCEPT !.pc = "unlock",
                    !.result = IF IntKey(render.depth) \in DOMAIN m
                                 THEN m[IntKey(render.depth)] ELSE Null]
  /\ UNCHANGED <<capture, nav, pm, texts>>
  /\ UNCHANGED <<track, indexVars, depth_, collapsed, canvas, calls, snap,
                 passes, mutex_, ingest>>

(* The ScopeLock goes out of scope. *)
GetTimers_Unlock ==
  /\ render.pc = "unlock"
  /\ mutex_' = "free"
  /\ render' = IdleRender
  /\ UNCHANGED <<capture, nav, pm, texts>>
  /\ UNCHANGED <<track, indexVars, depth_, collapsed, canvas, calls, snap,
                 passes, ingest>>

(***************************************************************************)
(* The PickingManager and the Pickables of PickingManagerTest.cpp.  A      *)
(* Pickable is named by its object; a weak_ptr is the name of the object   *)
(* it was made from, or NoPickable, and it is expired when that object is  *)
(* no longer alive.  A PickingID is a 32-bit word of an id, a type and a   *)
(* batcher id, and a Color is its four bytes; here the word has 8 bits     *)
(* and a colour channel 2.                                                 *)
(***************************************************************************)
MaxPickableIds == 2

PickIdBits == 4
PickTypeBits == 3
ChannelBits == 2
PickIdMod == 2 ^ PickIdBits
ChannelMod == 2 ^ ChannelBits
kPickable == 3
kBatcherUi == 1

Pickables == {"pickable1", "pickable2", "undraggable"}
NoPickable == "none"

(* bool Draggable(): true for PickableMock, false for UndraggableMock. *)
Draggable(p) == p # "undraggable"

(* The callbacks of PickableMock, on the mock's fields. *)
OnPick(m) == [m EXCEPT !.picked_ = TRUE]
OnDrag(m) == [m EXCEPT !.dragging_ = TRUE]

(* Mutant: OnRelease leaves picked_ as it is. *)
OnRelease_KeepsPicked(m) == [m EXCEPT !.dragging_ = FALSE]

OnRelease(m) == [m EXCEPT !.dragging_ = FALSE, !.picked_ = FALSE]

(* PickingID::Get(type, id, batcher_id) as a word. *)
PickingIdWord(type, id, batcher_id) ==
  (id % PickIdMod) + PickIdMod * type
    + PickIdMod * (2 ^ PickTypeBits) * batcher_id

(* The colour that carries a PickingID: the bytes of the word. *)
ColorOfWord(w) ==
  <<w % ChannelMod, (w \div ChannelMod) % ChannelMod,
    (w \div (ChannelMod ^ 2)) % ChannelMod,
    (w \div (ChannelMod ^ 3)) % ChannelMod>>

(* Mutant: the bytes are read in the opposite order. *)
MockRenderPickingColor_Swapped(col_vec) ==
  (col_vec[4] + ChannelMod * col_vec[3] + (ChannelMod ^ 2) * col_vec[2]
     + (ChannelMod ^ 3) * col_vec[1]) % PickIdMod

(* MockRenderPickingColor(col_vec).m_Id: the word is copied out of the     *)
(* colour's bytes and its id field is read.                                *)
MockRenderPickingColor(col_vec) ==
  (col_vec[1] + ChannelMod * col_vec[2] + (ChannelMod ^ 2) * col_vec[3]
     + (ChannelMod ^ 3) * col_vec[4]) % PickIdMod

(* weak_ptr::lock() and weak_ptr::expired(). *)
Lock(weak) == IF weak \in pm.alive THEN weak ELSE NoPickable
Expired(weak) == weak \notin pm.alive

(* PickingManager::GetPickableFromId: the handle stored for the id, or an  *)
(* empty one.                                                              *)
GetPickableFromId(id) ==
  IF id \in DOMAIN pm.id_pickable_map THEN pm.id_pickable_map[id]
  ELSE NoPickable

GetPicked == pm.picked

IsDragging == Lock(pm.picked) # NoPickable /\ Draggable(pm.picked)

IsThisElementPicked(p) == Lock(pm.picked) # NoPickable /\ pm.picked = p

NoOp == [op |-> "none", id |-> 0, pickable |-> NoPickable, callbacks |-> {}]

InitPm ==
  [id_counter |-> 0,
   id_pickable_map |-> [i \in {} |-> NoPickable],
   picked |-> NoPickable,
   alive |-> Pickables,
   mock |-> [p \in Pickables |-> [picked_ |-> FALSE, dragging_ |-> FALSE]],
   issued |-> {},
   last |-> NoOp]

(* GetPickableColor(pickable, BatcherId::UI): the next id is handed out    *)
(* and the handle is stored under it.                                      *)
GetPickableColor(p) ==
  LET id == pm.id_counter + 1
      col == ColorOfWord(PickingIdWord(kPickable, id, kBatcherUi))
  IN pm' = [pm EXCEPT !.id_counter = id,
                      !.id_pickable_map = MapPut(@, id, p),
                      !.issued = @ \cup {<<col, p>>},
                      !.last = [NoOp EXCEPT !.op = "GetPickableColor",
                                            !.id = id, !.pickable = p]]

(* Mutant: the handles stay in the map. *)
PickingManager_Reset_KeepsMap ==
  pm' = [pm EXCEPT !.id_counter = 0,
                   !.issued = {},
                   !.last = [NoOp EXCEPT !.op = "Reset", !.id = pm.id_counter]]

(* PickingManager::Reset: the ids handed out so far are forgotten.  The    *)
(* ghost last.id keeps how many there were.                                *)
PickingManager_Reset ==
  pm' = [pm EXCEPT !.id_counter = 0,
                   !.id_pickable_map = [i \in {} |-> NoPickable],
                   !.issued = {},
                   !.last = [NoOp EXCEPT !.op = "Reset", !.id = pm.id_counter]]

(* PickingManager::Pick(id, x, y): the pickable of the id, when it is      *)
(* alive, gets OnPick and is the picked one.  For an id that resolves to   *)
(* no live pickable the picked handle is either left alone or emptied      *)
(* (keeps_picked).                                                         *)
Pick(id, keeps_picked) ==
  LET picked == Lock(GetPickableFromId(id))
  IN IF picked # NoPickable
       THEN pm' = [pm EXCEPT !.picked = picked,
                             !.mock[picked] = OnPick(@),
                             !.last = [op |-> "Pick", id |-> id,
                                       pickable |-> picked,
                                       callbacks |-> {<<picked, "OnPick">>}]]
       ELSE pm' = [pm EXCEPT !.picked = IF keeps_picked THEN @ ELSE NoPickable,
                             !.last = [op |-> "Pick", id |-> id,
                                       pickable |-> NoPickable,
                                       callbacks |-> {}]]

(* PickingManager::Drag(x, y): OnDrag for a live, draggable picked one. *)
Drag ==
  LET picked == Lock(pm.picked)
  IN IF picked # NoPickable /\ Draggable(picked)
       THEN pm' = [pm EXCEPT !.mock[picked] = OnDrag(@),
                             !.last = [op |-> "Drag", id |-> 0,
                                       pickable |-> picked,
                                       callbacks |-> {<<picked, "OnDrag">>}]]
       ELSE pm' = [pm EXCEPT !.last = [op |-> "Drag", id |-> 0,
                                       pickable |-> NoPickable,
                                       callbacks |-> {}]]

(* PickingManager::Release(): OnRelease for a live picked one, and nothing *)
(* is picked any more.                                                     *)
Release ==
  LET picked == Lock(pm.picked)
  IN IF picked # NoPickable
       THEN pm' = [pm EXCEPT !.picked = NoPickable,
                             !.mock[picked] = OnRelease(@),
                             !.last = [op |-> "Release", id |-> 0,
                                       pickable |-> picked,
                                       callbacks |-> {<<picked, "OnRelease">>}]]
       ELSE pm' = [pm EXCEPT !.picked = NoPickable,
                             !.last = [op |-> "Release", id |-> 0,
                                       pickable |-> NoPickable,
                                       callbacks |-> {}]]

(* Mutant: another owner keeps the object alive. *)
ResetSharedPtr_StillOwned(p) ==
  pm' = [pm EXCEPT !.last = [NoOp EXCEPT !.op = "reset", !.pickable = p]]

(* pickable.reset() on the only shared_ptr: the object is destroyed. *)
ResetSharedPtr(p) ==
  pm' = [pm EXCEPT !.alive = @ \ {p},
                   !.last = [NoOp EXCEPT !.op = "reset", !.pickable = p]]

(***************************************************************************)
(* The calls the render thread makes on the track, statement by statement. *)
(* UpdatePrimitives copies the handles with GetTimers() and then loops     *)
(* over the buckets; GetFirstAfterTime, GetFirstBeforeTime and, through    *)
(* them, GetDown and GetUp fetch one handle with GetTimers(depth) and then *)
(* scan the bucket; GetLeft and GetRight fetch the handle, when the box is *)
(* of this track, and then ask the bucket for the neighbour.  The position *)
(* lock is the wait for the mutex, scan is the work on bucket contents.    *)
(***************************************************************************)
RenderOps ==
  {"UpdatePrimitives", "GetFirstAfterTime", "GetFirstBeforeTime",
   "GetLeft", "GetRight", "GetUp", "GetDown"}

(* The depth a call hands to GetTimers(depth), for a box or query depth d. *)
LookupDepth(op, d) ==
  IF op = "GetUp" THEN (d - 1) % UInt32Mod
  ELSE IF op = "GetDown" THEN (d + 1) % UInt32Mod
  ELSE d

(* The call is made.  GetLeft and GetRight on a box of another thread or   *)
(* timeline return nullptr without a lookup.                               *)
Call_Enter ==
  /\ render.pc = "idle"
  /\ \E op \in RenderOps, d \in 0..MaxDepth, of_this_track \in BOOLEAN :
       /\ of_this_track \/ op \in {"GetLeft", "GetRight"}
       /\ render' = [pc |-> IF of_this_track THEN "lock" ELSE "scan",
                     op |-> op, depth |-> LookupDepth(op, d), result |-> Null]
  /\ UNCHANGED <<capture, nav, pm, texts>>
  /\ UNCHANGED <<track, indexVars, depth_, collapsed, canvas, calls, snap,
                 passes, mutex_, ingest>>

(* ScopeLock lock(mutex_) in GetTimers() or GetTimers(depth). *)
Call_Lock ==
  /\ render.pc = "lock"
  /\ mutex_ = "free"
  /\ mutex_' = "render"
  /\ render' = [render EXCEPT !.pc = IF render.op = "UpdatePrimitives"
                                       THEN "in_iterate" ELSE "in_find"]
  /\ UNCHANGED <<capture, nav, pm, texts>>
  /\ UNCHANGED <<track, indexVars, depth_, collapsed, canvas, calls, snap,
                 passes, ingest>>

(* The loop of GetTimers() over timers_ has copied the handles. *)
Call_Iterate ==
  /\ render.pc = "in_iterate"
  /\ \E m \in MapsSeen :
       render' = [render EXCEPT !.pc = "unlock", !.result = HandlesOf(m)]
  /\ UNCHANGED <<capture, nav, pm, texts>>
  /\ UNCHANGED <<track, indexVars, depth_, collapsed, canvas, calls, snap,
                 passes, mutex_, ingest>>

(* timers_.find(depth) of GetTimers(depth) returns. *)
Call_Find ==
  /\ render.pc = "in_find"
  /\ \E m \in MapsSeen :
       render' = [render EXCEPT !.pc = "unlock",
                    !.result = IF IntKey(render.depth) \in DOMAIN m
                                 THEN m[IntKey(render.depth)] ELSE Null]
  /\ UNCHANGED <<capture, nav, pm, texts>>
  /\ UNCHANGED <<track, indexVars, depth_, collapsed, canvas, calls, snap,
                 passes, mutex_, ingest>>

(* Mutant: GetTimers returns with the mutex still held. *)
Call_Unlock_KeepsMutex ==
  /\ render.pc = "unlock"
  /\ render' = [render EXCEPT !.pc = "scan"]
  /\ UNCHANGED <<capture, nav, pm, texts>>
  /\ UNCHANGED <<track, indexVars, depth_, collapsed, canvas, calls, snap,
                 passes, mutex_, ingest>>

(* GetTimers returns: the ScopeLock goes out of scope. *)
Call_Unlock ==
  /\ render.pc = "unlock"
  /\ mutex_' = "free"
  /\ render' = [render EXCEPT !.pc = "scan"]
  /\ UNCHANGED <<capture, nav, pm, texts>>
  /\ UNCHANGED <<track, indexVars, depth_, collapsed, canvas, calls, snap,
                 passes, ingest>>

(* The loops over the bucket contents end and the call returns.  A pass of *)
(* UpdatePrimitives goes over the handles it copied.                       *)
Call_Return ==
  /\ render.pc = "scan"
  /\ IF render.op = "UpdatePrimitives"
       THEN LET r == UpdatePrimitivesOver(render.result, 0, TickTypeMax)
            IN /\ depth_' = r.depth
               /\ texts' = r.texts
               /\ passes' = LogPass(0, TickTypeMax, r.prims, 1)
       ELSE UNCHANGED <<depth_, passes, texts>>
  /\ render' = IdleRender
  /\ UNCHANGED <<capture, nav, pm>>
  /\ UNCHANGED <<track, indexVars, collapsed, canvas, calls, snap, mutex_,
                 ingest>>

(***************************************************************************)
(* The specifications.                                                     *)
(***************************************************************************)
DefaultCanvas == [width |-> 1, window |-> 1, min_timegraph_tick |-> 0,
      thread_color |-> <<200, 100, 50, 255>>]

(* Canvases with a pixel of 3 ticks and of 0 ticks, and one whose time     *)
(* graph starts at tick 1.                                                 *)
Canvases ==
  { [width |-> 1, window |-> 3, min_timegraph_tick |-> 0,
      thread_color |-> <<200, 100, 50, 255>>],
    [width |-> 1, window |-> 0, min_timegraph_tick |-> 0,
      thread_color |-> <<200, 100, 50, 255>>],
    [width |-> 1, window |-> 3, min_timegraph_tick |-> 1,
      thread_color |-> <<200, 100, 50, 255>>] }

(* The visible windows UpdatePrimitives is called with. *)
Windows == {<<0, 4>>, <<1, 1>>}

InitTrack ==
  /\ track \in {"ThreadTrack", "GpuTrack"}
  /\ timers_ = [k \in {} |-> Null]
  /\ chains = <<>>
  /\ num_timers_ = 0
  /\ min_time_ = TickTypeMax
  /\ max_time_ = TickTypeMin
  /\ depth_ = 0
  /\ mutex_ = "free"
  /\ ingest = IdleIngest
  /\ render = IdleRender
  /\ capture = [selected_text_box |-> NoBox, visible_functions |-> {},
                selected_functions |-> {}]
  /\ texts = [b \in {} |-> NoText]
  /\ nav = [op |-> "none", text_box |-> NoBox, result |-> NoBox]
  /\ pm = InitPm
  /\ collapsed = (track = "GpuTrack")
  /\ calls = <<>>
  /\ snap = NoSnap
  /\ passes = <<>>

Init == InitTrack /\ canvas = DefaultCanvas

InitRender == InitTrack /\ canvas \in Canvases

DoThreadOnTimer ==
  /\ Len(calls) < MaxTimers
  /\ \E ti \in TimerInfos("ThreadTrack") :
       InOrder(ti) /\ ThreadTrack_OnTimer(ti)
  /\ passes' = <<>>
  /\ UNCHANGED <<threadVars, capture, nav, pm, texts>>
  /\ UNCHANGED <<track, collapsed, canvas, snap>>

DoGpuOnTimer ==
  /\ Len(calls) < MaxTimers
  /\ \E ti \in TimerInfos("GpuTrack") :
       InOrder(ti) /\ GpuTrack_OnTimer(ti)
  /\ passes' = <<>>
  /\ UNCHANGED <<threadVars, capture, nav, pm, texts>>
  /\ UNCHANGED <<track, collapsed, canvas, snap>>

DoThreadOnTimerFlat ==
  /\ Len(calls) < MaxTimers
  /\ \E ti \in FlatTimerInfos("ThreadTrack") :
       InOrder(ti) /\ ThreadTrack_OnTimer(ti)
  /\ passes' = <<>>
  /\ UNCHANGED <<threadVars, capture, nav, pm, texts>>
  /\ UNCHANGED <<track, collapsed, canvas, snap>>

DoGpuOnTimerFlat ==
  /\ Len(calls) < MaxTimers
  /\ \E ti \in FlatTimerInfos("GpuTrack") :
       InOrder(ti) /\ GpuTrack_OnTimer(ti)
  /\ passes' = <<>>
  /\ UNCHANGED <<threadVars, capture, nav, pm, texts>>
  /\ UNCHANGED <<track, collapsed, canvas, snap>>

DoGetTimers ==
  /\ TakeSnapshot
  /\ UNCHANGED <<threadVars, capture, nav, pm, texts>>
  /\ UNCHANGED <<track, indexVars, depth_, collapsed, canvas, calls, passes>>

(* The user toggles collapse_toggle_. *)
DoToggleCollapse ==
  /\ collapsed' = ~collapsed
  /\ UNCHANGED <<threadVars, capture, nav, pm, texts>>
  /\ UNCHANGED <<track, indexVars, depth_, canvas, calls, snap, passes>>

DoUpdatePrimitives(keep) ==
  /\ \E win \in Windows :
       LET r == UpdatePrimitives(win[1], win[2])
       IN /\ depth_' = r.depth
          /\ texts' = r.texts
          /\ passes' = LogPass(win[1], win[2], r.prims, keep)
  /\ UNCHANGED <<threadVars, capture, nav, pm>>
  /\ UNCHANGED <<track, indexVars, collapsed, canvas, calls, snap>>

DoThreadUpdatePrimitives ==
  track = "ThreadTrack" /\ DoUpdatePrimitives(1)

DoGpuUpdatePrimitives ==
  track = "GpuTrack" /\ DoUpdatePrimitives(1)

DoThreadUpdatePrimitivesLogged ==
  track = "ThreadTrack" /\ DoUpdatePrimitives(3)

DoGpuUpdatePrimitivesLogged ==
  track = "GpuTrack" /\ DoUpdatePrimitives(3)

(* The index: ingestion and the queries on it. *)
Next ==
  \/ DoThreadOnTimer
  \/ DoGpuOnTimer
  \/ DoGetTimers

Spec == Init /\ [][Next]_vars

(* Ingestion of one depth and rendering, for every canvas. *)
NextOverdraw ==
  \/ DoThreadOnTimerFlat
  \/ DoGpuOnTimerFlat
  \/ DoToggleCollapse
  \/ DoThreadUpdatePrimitives
  \/ DoGpuUpdatePrimitives

SpecOverdraw == InitRender /\ [][NextOverdraw]_vars

(* Canvases with a pixel of 2 ticks, whose time graph starts at tick 0 or  *)
(* at tick 1, and one 2 pixels wide whose pixel is 5 / 2 ticks.            *)
GridCanvases ==
  { [DefaultCanvas EXCEPT !.window = 2, !.min_timegraph_tick = m] :
      m \in {0, 1} }
    \cup { [DefaultCanvas EXCEPT !.width = 2, !.window = 5] }

InitGrid == InitTrack /\ canvas \in GridCanvases

SpecGrid == InitGrid /\ [][NextOverdraw]_vars

(* Ingestion and rendering on one canvas, remembering the last three passes. *)
NextPasses ==
  \/ DoThreadOnTimer
  \/ DoGpuOnTimer
  \/ DoToggleCollapse
  \/ DoThreadUpdatePrimitivesLogged
  \/ DoGpuUpdatePrimitivesLogged

SpecPasses == Init /\ [][NextPasses]_vars

(* Thread colours the time graph's palette can report. *)
ThreadColors == {<<200, 100, 50, 255>>, <<255, 1, 0, 128>>}

ColorCanvases == {[DefaultCanvas EXCEPT !.thread_color = c] : c \in ThreadColors}

InitColor == InitTrack /\ canvas \in ColorCanvases

DoThreadOnTimerColored ==
  /\ Len(calls) < MaxTimers
  /\ \E ti \in ColorTimerInfos("ThreadTrack") :
       InOrder(ti) /\ ThreadTrack_OnTimer(ti)
  /\ passes' = <<>>
  /\ UNCHANGED <<threadVars, capture, nav, pm, texts>>
  /\ UNCHANGED <<track, collapsed, canvas, snap>>

DoGpuOnTimerColored ==
  /\ Len(calls) < MaxTimers
  /\ \E ti \in ColorTimerInfos("GpuTrack") :
       InOrder(ti) /\ GpuTrack_OnTimer(ti)
  /\ passes' = <<>>
  /\ UNCHANGED <<threadVars, capture, nav, pm, texts>>
  /\ UNCHANGED <<track, collapsed, canvas, snap>>

(* The boxes of the track: every position of every chain. *)
TextBoxes ==
  {b \in (1..Len(chains)) \X (1..num_timers_) : b[2] <= Len(chains[b[1]])}

(* The user selects a box, or nothing: Capture::GSelectedTextBox is set. *)
DoSelect ==
  /\ \E b \in TextBoxes \cup {NoBox} :
       /\ b # capture.selected_text_box
       /\ capture' = [capture EXCEPT !.selected_text_box = b]
  /\ passes' = <<>>
  /\ UNCHANGED <<threadVars, nav, pm, texts>>
  /\ UNCHANGED <<track, indexVars, depth_, collapsed, canvas, calls, snap>>

(* The user sets or clears the filter: Capture::GVisibleFunctionsMap. *)
DoSetVisibleFunctions ==
  /\ \E fs \in {{}, {1}} :
       /\ fs # capture.visible_functions
       /\ capture' = [capture EXCEPT !.visible_functions = fs]
  /\ passes' = <<>>
  /\ UNCHANGED <<threadVars, nav, pm, texts>>
  /\ UNCHANGED <<track, indexVars, depth_, collapsed, canvas, calls, snap>>

(* Ingestion, selection, the function filter and rendering, for every      *)
(* thread colour.                                                          *)
NextColor ==
  \/ DoThreadOnTimerColored
  \/ DoGpuOnTimerColored
  \/ DoSelect
  \/ DoSetVisibleFunctions
  \/ DoToggleCollapse
  \/ DoThreadUpdatePrimitives
  \/ DoGpuUpdatePrimitives

SpecColor == InitColor /\ [][NextColor]_vars

DoThreadOnTimerNav ==
  /\ Len(calls) < MaxTimers + 1
  /\ \E ti \in NavTimerInfos("ThreadTrack") :
       InOrder(ti) /\ ThreadTrack_OnTimer(ti)
  /\ passes' = <<>>
  /\ UNCHANGED <<threadVars, capture, nav, pm, texts>>
  /\ UNCHANGED <<track, collapsed, canvas, snap>>

DoGpuOnTimerNav ==
  /\ Len(calls) < MaxTimers + 1
  /\ \E ti \in NavTimerInfos("GpuTrack") :
       InOrder(ti) /\ GpuTrack_OnTimer(ti)
  /\ passes' = <<>>
  /\ UNCHANGED <<threadVars, capture, nav, pm, texts>>
  /\ UNCHANGED <<track, collapsed, canvas, snap>>

(* The user moves from box b: the call leaves the track as it is. *)
DoNavigate(op, b) ==
  /\ nav' = [op |-> op, text_box |-> b,
             result |-> CASE op = "GetLeft" -> GetLeft(b)
                          [] op = "GetRight" -> GetRight(b)
                          [] op = "GetUp" -> GetUp(b)
                          [] OTHER -> GetDown(b)]
  /\ UNCHANGED <<threadVars, capture, pm, texts>>
  /\ UNCHANGED <<track, indexVars, depth_, collapsed, canvas, calls, snap, passes>>

DoGetLeft == \E b \in TextBoxes : DoNavigate("GetLeft", b)

DoGetRight == \E b \in TextBoxes : DoNavigate("GetRight", b)

DoGetUp == \E b \in TextBoxes : DoNavigate("GetUp", b)

DoGetDown == \E b \in TextBoxes : DoNavigate("GetDown", b)

(* Ingestion and navigation. *)
NextNav ==
  \/ DoThreadOnTimerNav
  \/ DoGpuOnTimerNav
  \/ DoGetLeft
  \/ DoGetRight
  \/ DoGetUp
  \/ DoGetDown

SpecNav == Init /\ [][NextNav]_vars


(***************************************************************************)
(* Degenerate geometry: canvases 0 pixels wide, for a build whose division *)
(* by zero traps and for builds where it yields 0 or 1, a time window of 0 *)
(* microseconds, and a visible window with min_tick > max_tick.            *)
(***************************************************************************)
DegenerateCanvases ==
  { [width |-> 0, window |-> 3, min_timegraph_tick |-> 0,
      thread_color |-> <<200, 100, 50, 255>>,
      division_traps |-> TRUE, quotient_by_zero |-> 0],
    [width |-> 0, window |-> 3, min_timegraph_tick |-> 0,
      thread_color |-> <<200, 100, 50, 255>>,
      division_traps |-> FALSE, quotient_by_zero |-> 0],
    [width |-> 0, window |-> 3, min_timegraph_tick |-> 0,
      thread_color |-> <<200, 100, 50, 255>>,
      division_traps |-> FALSE, quotient_by_zero |-> 1],
    [width |-> 1, window |-> 0, min_timegraph_tick |-> 0,
      thread_color |-> <<200, 100, 50, 255>>,
      division_traps |-> FALSE, quotient_by_zero |-> 0],
    [width |-> 1, window |-> 1, min_timegraph_tick |-> 0,
      thread_color |-> <<200, 100, 50, 255>>,
      division_traps |-> FALSE, quotient_by_zero |-> 0] }

DegenerateWindows == {<<0, 4>>, <<2, 1>>}

InitDegenerate == InitTrack /\ canvas \in DegenerateCanvases

(* One pass on such a canvas.  The division is made before the loops, so a *)
(* trapping build ends the pass there, whatever the track holds; error     *)
(* tells whether the pass ended in the trap.                               *)
DoUpdatePrimitivesOnCanvas ==
  /\ \E win \in DegenerateWindows :
       IF DivisionFaults
         THEN /\ depth_' = depth_
              /\ texts' = texts
              /\ passes' = <<[is_collapsed |-> collapsed, min_tick |-> win[1],
                              max_tick |-> win[2], prims |-> <<>>,
                              error |-> TRUE]>>
         ELSE LET r == UpdatePrimitives(win[1], win[2])
              IN /\ depth_' = r.depth
                 /\ texts' = r.texts
                 /\ passes' = <<[is_collapsed |-> collapsed,
                                 min_tick |-> win[1], max_tick |-> win[2],
                                 prims |-> r.prims, error |-> FALSE]>>
  /\ UNCHANGED <<threadVars, capture, nav, pm>>
  /\ UNCHANGED <<track, indexVars, collapsed, canvas, calls, snap>>

DoThreadUpdatePrimitivesOnCanvas ==
  track = "ThreadTrack" /\ DoUpdatePrimitivesOnCanvas

DoGpuUpdatePrimitivesOnCanvas ==
  track = "GpuTrack" /\ DoUpdatePrimitivesOnCanvas

NextDegenerate ==
  \/ DoThreadOnTimerFlat
  \/ DoGpuOnTimerFlat
  \/ DoToggleCollapse
  \/ DoThreadUpdatePrimitivesOnCanvas
  \/ DoGpuUpdatePrimitivesOnCanvas

SpecDegenerate == InitDegenerate /\ [][NextDegenerate]_vars

(* An ingestion thread and a render thread on one track. *)
NextThreads ==
  \/ OnTimer_Enter
  \/ OnTimer_Index
  \/ OnTimer_Store
  \/ OnTimer_Push
  \/ GetTimers_Lock
  \/ GetTimers_Iterate
  \/ GetTimersAt_Lock
  \/ GetTimersAt_Find
  \/ GetTimers_Unlock

SpecThreads == Init /\ [][NextThreads]_vars

(* Records of one instant, at every depth. *)
PointTimerInfos(t) ==
  [start : {0}, end : {0}, depth : 0..MaxDepth,
   type : IF t = "ThreadTrack" THEN {kNone} ELSE {kGpuActivity},
   stage : IF t = "ThreadTrack" THEN {""} ELSE {kHwExecutionString},
   function_address : {1}, thread_id : {1}]

OnTimer_EnterPoint ==
  ingest.pc = "idle" /\ OnTimer_EnterWith(PointTimerInfos(track))

(* The two threads under a fair scheduler: a thread that can take its next *)
(* step takes it.  Nothing obliges a thread to make a call.                *)
NextCalls ==
  \/ OnTimer_EnterPoint
  \/ OnTimer_Index
  \/ OnTimer_Store
  \/ OnTimer_Push
  \/ Call_Enter
  \/ Call_Lock
  \/ Call_Iterate
  \/ Call_Find
  \/ Call_Unlock
  \/ Call_Return

SpecCalls ==
  /\ Init
  /\ [][NextCalls]_vars
  /\ WF_vars(OnTimer_Index)
  /\ WF_vars(OnTimer_Store)
  /\ WF_vars(OnTimer_Push)
  /\ WF_vars(Call_Lock)
  /\ WF_vars(Call_Iterate)
  /\ WF_vars(Call_Find)
  /\ WF_vars(Call_Unlock)
  /\ WF_vars(Call_Return)

(* The ids a test hands to Pick and GetPickableFromId: issued ones and    *)
(* one that is never issued.                                               *)
PickIds == 1..(MaxPickableIds + 1)

trackVars ==
  <<track, timers_, chains, num_timers_, min_time_, max_time_, depth_,
    collapsed, canvas, calls, snap, passes, mutex_, ingest, render,
    capture, nav, texts>>

DoGetPickableColor ==
  /\ pm.id_counter < MaxPickableIds
  /\ \E p \in pm.alive : GetPickableColor(p)
  /\ UNCHANGED trackVars

DoReset == PickingManager_Reset /\ UNCHANGED trackVars

DoPick ==
  /\ \E id \in PickIds, keeps_picked \in BOOLEAN : Pick(id, keeps_picked)
  /\ UNCHANGED trackVars

DoDrag == Drag /\ UNCHANGED trackVars

DoRelease == Release /\ UNCHANGED trackVars

DoResetSharedPtr ==
  /\ \E p \in pm.alive : ResetSharedPtr(p)
  /\ UNCHANGED trackVars

NextPicking ==
  \/ DoGetPickableColor
  \/ DoReset
  \/ DoPick
  \/ DoDrag
  \/ DoRelease
  \/ DoResetSharedPtr

(* The track plays no part: one track stands for both. *)
InitPicking == Init /\ track = "ThreadTrack"

SpecPicking == InitPicking /\ [][NextPicking]_vars

(* Pick of the id of a registered pickable, as in the Callbacks and the    *)
(* Undraggable test.                                                       *)
DoPickRegistered ==
  /\ \E id \in DOMAIN pm.id_pickable_map : Pick(id, TRUE)
  /\ UNCHANGED trackVars

(* Pick, Drag and Release on pickables that stay alive and registered. *)
NextCallbacks ==
  \/ DoGetPickableColor
  \/ DoPickRegistered
  \/ DoDrag
  \/ DoRelease

SpecCallbacks == InitPicking /\ [][NextCallbacks]_vars

(* Short records at every depth, on a canvas whose pixel is 3 ticks wide: *)
(* three of them fill one block of a bucket and begin the next.            *)
BlockTimerInfos(t) ==
  { ti \in [start : 0..1, end : 0..1, depth : 0..MaxDepth,
            type : IF t = "ThreadTrack" THEN {kNone} ELSE {kGpuActivity},
            stage : IF t = "ThreadTrack" THEN {""} ELSE {kHwExecutionString},
            function_address : {1}, thread_id : {1}] :
      ti.start <= ti.end }

BlockCanvas == [DefaultCanvas EXCEPT !.window = 3]

InitBlocks == InitTrack /\ canvas = BlockCanvas

DoThreadOnTimerBlocks ==
  /\ Len(calls) < MaxTimers + 1
  /\ \E ti \in BlockTimerInfos("ThreadTrack") :
       InOrder(ti) /\ ThreadTrack_OnTimer(ti)
  /\ passes' = <<>>
  /\ UNCHANGED <<threadVars, capture, nav, pm, texts>>
  /\ UNCHANGED <<track, collapsed, canvas, snap>>

DoGpuOnTimerBlocks ==
  /\ Len(calls) < MaxTimers + 1
  /\ \E ti \in BlockTimerInfos("GpuTrack") :
       InOrder(ti) /\ GpuTrack_OnTimer(ti)
  /\ passes' = <<>>
  /\ UNCHANGED <<threadVars, capture, nav, pm, texts>>
  /\ UNCHANGED <<track, collapsed, canvas, snap>>

NextBlocks ==
  \/ DoThreadOnTimerBlocks
  \/ DoGpuOnTimerBlocks
  \/ DoToggleCollapse
  \/ DoThreadUpdatePrimitives
  \/ DoGpuUpdatePrimitives

SpecBlocks == InitBlocks /\ [][NextBlocks]_vars

(* Records for the passes whose outcome is the text: of one depth, 1 and  *)
(* 4 ticks long, among them introspection timers on a ThreadTrack.         *)
TextTimerInfos(t) ==
  { ti \in [start : {0}, end : {1, 4}, depth : {0},
            type : IF t = "ThreadTrack" THEN {kNone, kIntrospection}
                                        ELSE {kGpuActivity},
            stage : IF t = "ThreadTrack" THEN {""}
                                         ELSE {kSwQueueString, kHwExecutionString},
            function_address : {1}, thread_id : {1}] : TRUE }

DoThreadOnTimerText ==
  /\ Len(calls) < MaxTimers
  /\ \E ti \in TextTimerInfos("ThreadTrack") :
       InOrder(ti) /\ ThreadTrack_OnTimer(ti)
  /\ passes' = <<>>
  /\ UNCHANGED <<threadVars, capture, nav, pm, texts>>
  /\ UNCHANGED <<track, collapsed, canvas, snap>>

DoGpuOnTimerText ==
  /\ Len(calls) < MaxTimers
  /\ \E ti \in TextTimerInfos("GpuTrack") :
       InOrder(ti) /\ GpuTrack_OnTimer(ti)
  /\ passes' = <<>>
  /\ UNCHANGED <<threadVars, capture, nav, pm, texts>>
  /\ UNCHANGED <<track, collapsed, canvas, snap>>

(* A function is selected or unselected: Capture::GSelectedFunctionsMap. *)
DoSetSelectedFunctions ==
  /\ \E fs \in {{}, {1}} :
       /\ fs # capture.selected_functions
       /\ capture' = [capture EXCEPT !.selected_functions = fs]
  /\ passes' = <<>>
  /\ UNCHANGED <<threadVars, nav, pm, texts>>
  /\ UNCHANGED <<track, indexVars, depth_, collapsed, canvas, calls, snap>>

(* The user zooms: the time window of the canvas changes. *)
DoZoom ==
  /\ \E c \in Canvases :
       /\ c # canvas
       /\ canvas' = c
  /\ passes' = <<>>
  /\ UNCHANGED <<threadVars, capture, nav, pm, texts>>
  /\ UNCHANGED <<track, indexVars, depth_, collapsed, calls, snap>>

NextText ==
  \/ DoThreadOnTimerText
  \/ DoGpuOnTimerText
  \/ DoToggleCollapse
  \/ DoSetSelectedFunctions
  \/ DoZoom
  \/ DoThreadUpdatePrimitives
  \/ DoGpuUpdatePrimitives

SpecText == InitRender /\ [][NextText]_vars

(***************************************************************************)
(* Reference definitions used by the properties.                           *)
(***************************************************************************)
QueryTimes == WideTicks
QueryDepths == 0..(MaxDepth + 1)

(* The calls whose record has depth d, as positions of calls, in order. *)
RECURSIVE CallsAtDepth(_, _)
CallsAtDepth(d, n) ==
  IF n = 0 THEN <<>>
  ELSE IF calls[n].depth = d THEN Append(CallsAtDepth(d, n - 1), calls[n])
  ELSE CallsAtDepth(d, n - 1)

RECURSIVE SumLen(_, _)
SumLen(cs, n) == IF n = 0 THEN 0 ELSE Len(cs[n]) + SumLen(cs, n - 1)

(* The records of depth d, read off the bucket map. *)
Bucket(d) == Chain(GetTimersAt(d))

IsPrefix(p, q) ==
  /\ Len(p) <= Len(q)
  /\ \A i \in 1..Len(p) : p[i] = q[i]

(* C1: every read and every write of timers_ happens while the thread      *)
(* holds mutex_, and OnTimer is never inside an operation that changes the *)
(* map while GetTimers() or GetTimers(depth) is inside one that reads it.  *)
C1_MapAccessUnderMutex ==
  /\ ingest.pc \in {"in_index", "in_store"} => mutex_ = "ingest"
  /\ render.pc \in {"in_iterate", "in_find"} => mutex_ = "render"
  /\ ~(IngestWritesMap /\ render.pc \in {"in_iterate", "in_find"})

(* C2: GetFirstBeforeTime(t, d) returns a record of depth d with the       *)
(* greatest start among those with start <= t, and none only when there    *)
(* is no record of depth d with start <= t.                                *)
C2_FirstBeforeIsGreatest ==
  \A t \in QueryTimes : \A d \in QueryDepths :
    LET c == Bucket(d)
        le == {i \in 1..Len(c) : c[i].start <= t}
        r == GetFirstBeforeTime(t, d)
    IN IF le = {} THEN r = NoBox
       ELSE /\ r # NoBox
            /\ r[1] = GetTimersAt(d)
            /\ r[2] \in le
            /\ \A i \in le : c[i].start <= c[r[2]].start

(* C3: GetFirstAfterTime(t, d) returns a record of depth d with the        *)
(* smallest start among those with start > t, and none when the bucket is  *)
(* absent or holds no record with start > t.                               *)
C3_FirstAfterIsSmallest ==
  \A t \in QueryTimes : \A d \in QueryDepths :
    LET c == Bucket(d)
        gt == {i \in 1..Len(c) : c[i].start > t}
        r == GetFirstAfterTime(t, d)
    IN IF gt = {} THEN r = NoBox
       ELSE /\ r # NoBox
            /\ r[1] = GetTimersAt(d)
            /\ r[2] \in gt
            /\ \A i \in gt : c[r[2]].start <= c[i].start

C3_Witness ==
  \E t \in QueryTimes : \E d \in QueryDepths :
    /\ Len(Bucket(d)) >= 2
    /\ GetFirstAfterTime(t, d) # NoBox
    /\ GetFirstAfterTime(t, d)[2] >= 2

(* C4: min_time_ <= start and max_time_ >= end for every record that was   *)
(* inserted, and no step raises min_time_ or lowers max_time_.             *)
C4_BoundsCoverRecords ==
  /\ [](\A i \in 1..Len(calls) :
          min_time_ <= calls[i].start /\ max_time_ >= calls[i].end)
  /\ [][min_time_' <= min_time_ /\ max_time_' >= max_time_]_vars

C4_Witness ==
  /\ Len(calls) >= 2
  /\ min_time_ < calls[Len(calls)].start
  /\ max_time_ > calls[Len(calls)].end

(* C5: once OnTimer(record) has returned, depth_ >= record.depth + 1, for  *)
(* every record kind and both track classes.                               *)
C5_DepthCoversRecords ==
  \A i \in 1..Len(calls) : depth_ >= calls[i].depth + 1

(* C6: the bucket of depth d exists iff a record of depth d was inserted,  *)
(* it holds exactly the records inserted with depth d in insertion order   *)
(* (so no record sits in a bucket of another depth), and num_timers_ is    *)
(* the number of OnTimer calls and the sum of the bucket lengths.          *)
C6_BucketsHoldInsertedRecords ==
  /\ \A d \in 0..MaxDepth :
       /\ (IntKey(d) \in DOMAIN timers_) <=> (\E i \in 1..Len(calls) : calls[i].depth = d)
       /\ Bucket(d) = CallsAtDepth(d, Len(calls))
  /\ \A k \in DOMAIN timers_ : k \in 0..MaxDepth /\ timers_[k] \in 1..Len(chains)
  /\ \A j, k \in DOMAIN timers_ : j # k => timers_[j] # timers_[k]
  /\ num_timers_ = Len(calls)
  /\ num_timers_ = SumLen(chains, Len(chains))

C6_Witness ==
  /\ Len(calls) = MaxTimers
  /\ \E d \in 0..MaxDepth :
       /\ d > 0
       /\ Len(Bucket(d)) >= 2
       /\ Bucket(d)[1] # Bucket(d)[2]
       /\ IntKey(0) \notin DOMAIN timers_

SameOffset(y1, y2) == y1.mult * y2.div = y2.mult * y1.div

SamePrimitive(p, q) ==
  /\ p.box = q.box
  /\ p.is_box = q.is_box
  /\ p.x = q.x
  /\ p.w = q.w
  /\ SameOffset(p.y, q.y)
  /\ p.hdiv = q.hdiv
  /\ p.color = q.color

(* The record intersects the window of pass e. *)
IntersectsWindow(e, ti) == ~(e.min_tick > ti.end \/ e.max_tick < ti.start)

(* The record is not filtered by the stage filter of a collapsed GpuTrack. *)
PassesStageFilter(e, ti) ==
  ~(track = "GpuTrack" /\ e.is_collapsed /\ ti.stage # kHwExecutionString)

Blocks(h) == 1..BlockOf(Len(chains[h]))

(* The records of block b of chain h that pass e had to draw. *)
DrawableOfBlock(e, h, b) ==
  {k \in BlockStart(b)..BlockEnd(chains[h], b) :
     IntersectsWindow(e, chains[h][k]) /\ PassesStageFilter(e, chains[h][k])}

LinesOf(e, h, K) ==
  {i \in 1..Len(e.prims) :
     e.prims[i].box[1] = h /\ e.prims[i].box[2] \in K /\ ~e.prims[i].is_box}

(* The tick span of the records K of chain h: greatest end - smallest start. *)
SpanOf(h, K) ==
  LET hi == CHOOSE k \in K : \A j \in K : chains[h][k].end >= chains[h][j].end
      lo == CHOOSE k \in K : \A j \in K : chains[h][k].start <= chains[h][j].start
  IN chains[h][hi].end - chains[h][lo].start

(* The records K of chain h all lie in one pixel of the grid that starts   *)
(* at the time graph's minimum tick.                                       *)
InOnePixel(h, K) ==
  LET m == canvas.min_timegraph_tick
      p == PixelDeltaInTicks
  IN \E n \in WideTicks :
       \A k \in K : /\ m + n * p <= chains[h][k].start
                    /\ chains[h][k].start < m + (n + 1) * p
                    /\ chains[h][k].end <= m + (n + 1) * p

LastPass == passes[Len(passes)]

(* C8: two UpdatePrimitives passes for the same window and viewport, in    *)
(* the same collapse state and with no OnTimer in between, hand the same   *)
(* sequence of primitives to the batcher.                                  *)
C8_UpdatePrimitivesIdempotent ==
  \A i \in 1..(Len(passes) - 1) :
    passes[i].is_collapsed = passes[i + 1].is_collapsed =>
      /\ Len(passes[i].prims) = Len(passes[i + 1].prims)
      /\ \A n \in 1..Len(passes[i].prims) :
           SamePrimitive(passes[i].prims[n], passes[i + 1].prims[n])

(* C9: when the records a pass has to draw from one block of one depth,    *)
(* N >= 1 of them, together span less than pixel_delta_in_ticks, exactly   *)
(* one vertical line is emitted for them.                                  *)
C9_OneLinePerSubPixelSpan ==
  passes # <<>> =>
    \A h \in 1..Len(chains) : \A b \in Blocks(h) :
      LET K == DrawableOfBlock(LastPass, h, b)
      IN (K # {} /\ SpanOf(h, K) < PixelDeltaInTicks) =>
           Cardinality(LinesOf(LastPass, h, K)) = 1

(* C9 as amended: when the records a pass has to draw from one block of    *)
(* one depth, N >= 1 of them, all lie in one pixel of the grid that starts *)
(* at the time graph's minimum tick (m + n*p <= start < m + (n+1)*p and    *)
(* end <= m + (n+1)*p, p = pixel_delta_in_ticks > 0), exactly one vertical *)
(* line and no box is emitted for them.                                    *)
C9_OneLinePerPixel ==
  passes # <<>> =>
    \A h \in 1..Len(chains) : \A b \in Blocks(h) :
      LET K == DrawableOfBlock(LastPass, h, b)
      IN (K # {} /\ PixelDeltaInTicks > 0 /\ InOnePixel(h, K)) =>
           /\ Cardinality(LinesOf(LastPass, h, K)) = 1
           /\ \A i \in 1..Len(LastPass.prims) :
                (LastPass.prims[i].box[1] = h /\ LastPass.prims[i].box[2] \in K)
                  => ~LastPass.prims[i].is_box

C9_Witness ==
  /\ passes # <<>>
  /\ PixelDeltaInTicks > 0
  /\ \E h \in 1..Len(chains) : \E b \in Blocks(h) :
       LET K == DrawableOfBlock(LastPass, h, b)
       IN /\ Cardinality(K) >= 2
          /\ InOnePixel(h, K)
          /\ \E j, k \in K : chains[h][j] # chains[h][k]
          /\ Cardinality(LinesOf(LastPass, h, K)) = 1

(* C10: a pass while collapsed, a pass while expanded and a pass while     *)
(* collapsed again, for the same window and viewport and with no OnTimer   *)
(* in between: every primitive of the last pass has the vertical position  *)
(* it had in the first.                                                    *)
C10_CollapseRoundTrip ==
  (/\ Len(passes) = 3
   /\ passes[1].is_collapsed
   /\ ~passes[2].is_collapsed
   /\ passes[3].is_collapsed) =>
    /\ Len(passes[3].prims) = Len(passes[1].prims)
    /\ \A n \in 1..Len(passes[3].prims) :
         /\ passes[3].prims[n].box = passes[1].prims[n].box
         /\ SameOffset(passes[3].prims[n].y, passes[1].prims[n].y)

(***************************************************************************)
(* Reference definitions for the primitives of single records.             *)
(***************************************************************************)
(* The primitives pass e emitted for the box at chain h, position k. *)
PrimsOf(e, h, k) == {i \in 1..Len(e.prims) : e.prims[i].box = <<h, k>>}

(* Offset y1 puts a primitive strictly above offset y2: Y is the track's   *)
(* Y minus the offset, and a smaller Y is higher.                          *)
StrictlyAbove(y1, y2) == y1.mult * y2.div > y2.mult * y1.div

(* The collapse state a track is created in. *)
CreatedCollapsed == (track = "GpuTrack")

(* C11: two records at different depths inserted into a newly created      *)
(* track, both intersecting the window of the pass: the pass emits exactly *)
(* one primitive for each, and the deeper record's primitive is strictly   *)
(* above (smaller Y) the shallower record's.                               *)
C11_DeeperRecordIsAbove ==
  (/\ passes # <<>>
   /\ Len(calls) = 2
   /\ calls[1].depth # calls[2].depth
   /\ LastPass.is_collapsed = CreatedCollapsed
   /\ \A i \in 1..2 : IntersectsWindow(LastPass, calls[i])) =>
    LET lo == IF calls[1].depth < calls[2].depth THEN calls[1] ELSE calls[2]
        hi == IF calls[1].depth < calls[2].depth THEN calls[2] ELSE calls[1]
        plo == PrimsOf(LastPass, GetTimersAt(lo.depth), 1)
        phi == PrimsOf(LastPass, GetTimersAt(hi.depth), 1)
    IN /\ Len(LastPass.prims) = 2
       /\ Cardinality(plo) = 1
       /\ Cardinality(phi) = 1
       /\ \A i \in plo : \A j \in phi :
            StrictlyAbove(LastPass.prims[j].y, LastPass.prims[i].y)

(***************************************************************************)
(* Reference definitions for the colours.                                  *)
(***************************************************************************)
(* The stage coefficient, in hundredths. *)
RefCoeff(stage) ==
  CASE stage = "sw queue" -> 50
    [] stage = "hw queue" -> 75
    [] OTHER -> 100

RefAlpha(ti) == IF ti.depth % 2 = 0 THEN 210 ELSE canvas.thread_color[4]

(* The primitives of the last pass whose box is not the selected one. *)
UnselectedPrims ==
  {i \in 1..Len(LastPass.prims) :
     LastPass.prims[i].box # capture.selected_text_box}

(* C12: the colour of a GPU timer that is not selected has R, G and B      *)
(* equal to the thread colour's channel times the stage coefficient (0.5   *)
(* sw queue, 0.75 hw queue, 1.0 otherwise), and alpha 210 at an even depth *)
(* and the thread colour's alpha at an odd depth.                          *)
C12_GpuColorIsScaledThreadColor ==
  (passes # <<>> /\ track = "GpuTrack") =>
    \A i \in UnselectedPrims :
      LET ti == TimerInfoOf(LastPass.prims[i].box)
          color == LastPass.prims[i].color
      IN /\ \A j \in 1..3 :
              100 * color[j] = RefCoeff(ti.stage) * canvas.thread_color[j]
         /\ color[4] = RefAlpha(ti)

(* C12 as amended: R, G and B are the thread colour's channel times the    *)
(* stage coefficient with the fraction dropped (the product is converted   *)
(* to an 8-bit integer); alpha as before.                                  *)
C12_GpuColorIsTruncatedProduct ==
  (passes # <<>> /\ track = "GpuTrack") =>
    \A i \in UnselectedPrims :
      LET ti == TimerInfoOf(LastPass.prims[i].box)
          color == LastPass.prims[i].color
      IN /\ \A j \in 1..3 :
              color[j] = (RefCoeff(ti.stage) * canvas.thread_color[j]) \div 100
         /\ color[4] = RefAlpha(ti)

C12_Witness ==
  /\ passes # <<>>
  /\ track = "GpuTrack"
  /\ \E i \in UnselectedPrims :
       LET ti == TimerInfoOf(LastPass.prims[i].box)
       IN /\ ti.stage = "hw queue"
          /\ ti.depth % 2 = 0
          /\ (75 * canvas.thread_color[1]) % 100 # 0
          /\ LastPass.prims[i].color[4] = 210

(* The colour of the record's classification: its colour when it is        *)
(* neither selected nor inactive.                                          *)
ClassificationColor(ti) ==
  IF track = "ThreadTrack" THEN ThreadTrack_GetTimerColor(ti, FALSE, FALSE)
  ELSE GpuTrack_GetTimerColor(ti, FALSE, FALSE)

(* The record's function is hidden by a non-empty visible-function filter. *)
HiddenByFilter(ti) ==
  /\ capture.visible_functions # {}
  /\ ti.function_address \notin capture.visible_functions

(* C13: on both track kinds the colour a pass emits for a record is        *)
(* (0,128,255,255) when the record is the selected one, (100,100,100,255)  *)
(* when it is not selected and its function is hidden by a non-empty       *)
(* visible-function filter, and the classification colour otherwise.       *)
C13_SelectedThenDimmedThenClassified ==
  passes # <<>> =>
    \A i \in 1..Len(LastPass.prims) :
      LET box == LastPass.prims[i].box
          ti == TimerInfoOf(box)
      IN LastPass.prims[i].color =
           IF box = capture.selected_text_box THEN <<0, 128, 255, 255>>
           ELSE IF HiddenByFilter(ti) THEN <<100, 100, 100, 255>>
           ELSE ClassificationColor(ti)

(* C13 as amended: the colour is (0,128,255,255) when the record is the    *)
(* selected one, on both track kinds; (100,100,100,255) when it is not     *)
(* selected, the track is a ThreadTrack and its function is hidden by a    *)
(* non-empty visible-function filter; the classification colour otherwise, *)
(* so a GpuTrack never dims.                                               *)
C13_SelectedThenDimmedOnThreadTrack ==
  passes # <<>> =>
    \A i \in 1..Len(LastPass.prims) :
      LET box == LastPass.prims[i].box
          ti == TimerInfoOf(box)
      IN LastPass.prims[i].color =
           IF box = capture.selected_text_box THEN <<0, 128, 255, 255>>
           ELSE IF track = "ThreadTrack" /\ HiddenByFilter(ti)
             THEN <<100, 100, 100, 255>>
           ELSE ClassificationColor(ti)

C13_Witness ==
  /\ passes # <<>>
  /\ track = "ThreadTrack"
  /\ \E i, j \in 1..Len(LastPass.prims) :
       /\ LastPass.prims[i].box = capture.selected_text_box
       /\ HiddenByFilter(TimerInfoOf(LastPass.prims[i].box))
       /\ LastPass.prims[i].color = <<0, 128, 255, 255>>
       /\ LastPass.prims[j].box # capture.selected_text_box
       /\ HiddenByFilter(TimerInfoOf(LastPass.prims[j].box))
       /\ LastPass.prims[j].color = <<100, 100, 100, 255>>

(***************************************************************************)
(* Reference definitions for the navigation.                               *)
(***************************************************************************)
(* The position of the box within the bucket of its record's depth. *)
BucketOf(text_box) == Bucket(TimerInfoOf(text_box).depth)

(* C14: for every inserted record r, GetLeft(r) is the record inserted     *)
(* immediately before r in the bucket of r's depth when there is one, and  *)
(* GetRight(r) the record inserted immediately after r when there is one.  *)
C14_LeftRightAreNeighbours ==
  \A b \in TextBoxes :
    /\ b[2] > 1 => GetLeft(b) = <<b[1], b[2] - 1>>
    /\ b[2] < Len(BucketOf(b)) => GetRight(b) = <<b[1], b[2] + 1>>

(* C15: GetLeft of the first record of a bucket and GetRight of the last   *)
(* record of a bucket are none.                                            *)
C15_NoneAtBucketEnds ==
  \A b \in TextBoxes :
    /\ b[2] = 1 => GetLeft(b) = NoBox
    /\ b[2] = Len(BucketOf(b)) => GetRight(b) = NoBox

C15_Witness ==
  /\ nav.op = "GetLeft"
  /\ nav.text_box \in TextBoxes
  /\ IsOfThisTrack(TimerInfoOf(nav.text_box))
  /\ Len(BucketOf(nav.text_box)) = 1
  /\ nav.result = NoBox
  /\ GetRight(nav.text_box) = NoBox

(* C16: GetUp of a record at depth 0 is none, and GetDown of a record      *)
(* whose depth + 1 bucket (depth + 1 as the uint32_t computes it) is       *)
(* absent is none.                                                         *)
C16_NoneAboveDepthZero ==
  \A b \in TextBoxes :
    LET ti == TimerInfoOf(b)
    IN /\ ti.depth = 0 => GetUp(b) = NoBox
       /\ (\A i \in 1..Len(calls) :
             calls[i].depth # (ti.depth + 1) % UInt32Mod)
            => GetDown(b) = NoBox


(* C17: on a canvas 0 pixels wide every UpdatePrimitives pass ends without *)
(* an error and hands no primitive to the batcher.                         *)
C17_ZeroWidthGivesNoPrimitives ==
  canvas.width = 0 =>
    \A i \in 1..Len(passes) : ~passes[i].error /\ passes[i].prims = <<>>

(* C18: on a canvas of non-zero width, a pass for a visible window with    *)
(* min_tick > max_tick, or made while the time window is 0 microseconds    *)
(* wide, hands no primitive to the batcher.                                *)
C18_EmptyWindowGivesNoPrimitives ==
  canvas.width # 0 =>
    \A i \in 1..Len(passes) :
      (passes[i].min_tick > passes[i].max_tick \/ canvas.window = 0)
        => passes[i].prims = <<>>

(* C19: a step that is not an OnTimer call (calls is left as it is) leaves *)
(* the bucket map, the buckets, num_timers_, min_time_, max_time_ and      *)
(* depth_ unchanged.                                                       *)
C19_OnlyOnTimerWritesTrackState ==
  [][calls' = calls =>
       UNCHANGED <<timers_, chains, num_timers_, min_time_, max_time_,
                   depth_>>]_vars

IssuedIds == {MockRenderPickingColor(e[1]) : e \in pm.issued}

(* C21: the id read back from a colour that GetPickableColor returned for  *)
(* a pickable still alive resolves to that pickable, two pickables never   *)
(* share an id, and an id that was not handed out resolves to an expired   *)
(* handle.                                                                 *)
C21_ColorRoundTrip ==
  /\ \A e \in pm.issued :
       e[2] \in pm.alive =>
         Lock(GetPickableFromId(MockRenderPickingColor(e[1]))) = e[2]
  /\ \A e, f \in pm.issued :
       e[2] # f[2] => MockRenderPickingColor(e[1]) # MockRenderPickingColor(f[1])
  /\ \A id \in PickIds :
       id \notin IssuedIds => Expired(GetPickableFromId(id))

(* Two live pickables hold colours, and some id was not handed out. *)
C21_Witness ==
  /\ Cardinality({e[2] : e \in pm.issued} \cap pm.alive) >= 2
  /\ PickIds \ IssuedIds # {}

(* C22: a Reset leaves every id that was handed out before it resolving to *)
(* an expired handle, also the ids of pickables that are still alive.      *)
C22_ResetExpiresIssuedIds ==
  [][pm'.last.op = "Reset" =>
       \A e \in pm.issued :
         Expired(GetPickableFromId(MockRenderPickingColor(e[1])))']_vars

(* Right after a Reset that forgot two ids, with every pickable alive. *)
C22_Witness ==
  /\ pm.last.op = "Reset"
  /\ pm.last.id >= 2
  /\ pm.alive = Pickables

(* What a step shows of Pick, Release and OnDrag, whatever it does to      *)
(* IsDragging: a Pick that resolves to a pickable calls its OnPick and     *)
(* makes it the picked element; a Release calls OnRelease of the picked    *)
(* pickable and leaves nothing picked; OnDrag is called by Drag only, on a *)
(* draggable pickable and while IsDragging is true.                        *)
CallbacksOfStep ==
  LET op == pm'.last.op
      p == pm'.last.pickable
  IN /\ (op = "Pick" /\ p # NoPickable) =>
          /\ pm'.last.callbacks = {<<p, "OnPick">>}
          /\ pm'.mock[p].picked_
          /\ \E q \in Pickables : q = p /\ IsThisElementPicked(q)'
     /\ op = "Release" =>
          /\ \A q \in Pickables : ~IsThisElementPicked(q)'
          /\ Lock(pm.picked) # NoPickable =>
               /\ pm'.last.callbacks = {<<pm.picked, "OnRelease">>}
               /\ ~pm'.mock[pm.picked].picked_
               /\ ~pm'.mock[pm.picked].dragging_
     /\ \A q \in Pickables :
          (\/ <<q, "OnDrag">> \in pm'.last.callbacks
           \/ pm'.mock[q].dragging_ /\ ~pm.mock[q].dragging_)
            => op = "Drag" /\ IsDragging /\ Draggable(q)

C24_DestroyedWhilePicked ==
  [][/\ \A p \in Pickables :
          /\ (pm'.last.op = "reset" /\ pm'.last.pickable = p /\ pm.picked = p)
               => /\ \A id \in PickIds :
                       GetPickableFromId(id) = p
                         => Lock(GetPickableFromId(id))' = NoPickable
                  /\ ~IsDragging'
          /\ (/\ pm.picked = p
              /\ p \notin pm.alive
              /\ pm'.last.op = "Pick"
              /\ GetPickableFromId(pm'.last.id) = p)
               => Expired(GetPicked)' /\ pm'.last.callbacks = {}
     /\ \A e \in pm'.last.callbacks : e[1] \in pm.alive]_vars

(* A Pick of the id of a pickable that was destroyed while it was picked   *)
(* and dragged has just been made.                                         *)
C24_Witness ==
  /\ pm.last.op = "Pick"
  /\ pm.last.pickable = NoPickable
  /\ pm.last.id \in DOMAIN pm.id_pickable_map
  /\ LET p == pm.id_pickable_map[pm.last.id]
     IN /\ p \notin pm.alive
        /\ pm.mock[p].picked_
        /\ pm.mock[p].dragging_

(***************************************************************************)
(* Reference definitions for the ignore window of a pass.                  *)
(***************************************************************************)
(* The positions of block b of chain h before k for which pass e drew a    *)
(* line.                                                                   *)
LinesBefore(e, h, k) ==
  {j \in BlockStart(BlockOf(k))..(k - 1) :
     \E i \in PrimsOf(e, h, j) : ~e.prims[i].is_box}

(* The record at position k lies in the pixel of the line drawn last       *)
(* before it in its block.                                                 *)
SuppressedByIgnoreWindow(e, h, k) ==
  /\ PixelDeltaInTicks # 0
  /\ LinesBefore(e, h, k) # {}
  /\ LET j == CHOOSE j \in LinesBefore(e, h, k) :
                \A l \in LinesBefore(e, h, k) : l <= j
         m == canvas.min_timegraph_tick
         lo == (m + (((chains[h][j].start - m) % TickMod)
                       \div PixelDeltaInTicks) * PixelDeltaInTicks) % TickMod
         hi == (lo + PixelDeltaInTicks) % TickMod
     IN chains[h][k].start >= lo /\ chains[h][k].end <= hi

(* C25: in a pass, a record outside the visible window gives no primitive; *)
(* a record that intersects it, passes the stage filter and is not in the  *)
(* ignore window gives exactly one: a box of its duration when its length  *)
(* is more than one pixel, and otherwise a line, of no width and of the    *)
(* height the pass gives its rows, both at the record's start.             *)
C25_OnePrimitivePerDrawnRecord ==
  passes # <<>> =>
    \A h \in 1..Len(chains) : \A k \in 1..Len(chains[h]) :
      LET ti == chains[h][k]
          e == LastPass
      IN IF ~IntersectsWindow(e, ti) THEN PrimsOf(e, h, k) = {}
         ELSE (PassesStageFilter(e, ti) /\ ~SuppressedByIgnoreWindow(e, h, k)) =>
           /\ Cardinality(PrimsOf(e, h, k)) = 1
           /\ \A i \in PrimsOf(e, h, k) :
                /\ e.prims[i].is_box
                     = ((ti.end - ti.start) * canvas.width > canvas.window)
                /\ e.prims[i].x = ti.start
                /\ e.prims[i].w = IF e.prims[i].is_box THEN ti.end - ti.start
                                                      ELSE 0
                /\ \A n \in 1..Len(e.prims) : e.prims[n].hdiv = e.prims[i].hdiv

(* A pass that drew one line for a record and nothing for a later record  *)
(* of the window that lies in the line's ignore window.                    *)
C25_Witness ==
  /\ passes # <<>>
  /\ Len(LastPass.prims) = 1
  /\ ~LastPass.prims[1].is_box
  /\ \E h \in 1..Len(chains) : \E k \in 1..Len(chains[h]) :
       /\ IntersectsWindow(LastPass, chains[h][k])
       /\ SuppressedByIgnoreWindow(LastPass, h, k)
       /\ PrimsOf(LastPass, h, k) = {}

(* The record at chain h2, position k, lies in the pixel of the record at  *)
(* chain h, position j.                                                    *)
InPixelOf(h, j, h2, k) ==
  /\ PixelDeltaInTicks # 0
  /\ chains[h2][k].start >= MinIgnoreOf(chains[h][j])
  /\ chains[h2][k].end <= MaxIgnoreOf(chains[h][j])

(* C26: a record of the window that lies in the pixel of a line drawn in   *)
(* another block or another depth bucket, and in the pixel of no line      *)
(* drawn before it in its own block, is drawn.                             *)
C26_IgnoreWindowStaysInBlock ==
  passes # <<>> =>
    \A h \in 1..Len(chains) : \A j \in 1..Len(chains[h]) :
      (\E i \in PrimsOf(LastPass, h, j) : ~LastPass.prims[i].is_box) =>
        \A h2 \in 1..Len(chains) : \A k \in 1..Len(chains[h2]) :
          (/\ h2 # h \/ BlockOf(k) # BlockOf(j)
           /\ InPixelOf(h, j, h2, k)
           /\ IntersectsWindow(LastPass, chains[h2][k])
           /\ PassesStageFilter(LastPass, chains[h2][k])
           /\ ~SuppressedByIgnoreWindow(LastPass, h2, k))
            => PrimsOf(LastPass, h2, k) # {}

(* A line was drawn for the first record of a bucket, the second record of *)
(* its block was left out, and the record that begins the next block, in   *)
(* the same pixel, was drawn.                                              *)
C26_Witness ==
  /\ passes # <<>>
  /\ \E h \in 1..Len(chains) :
       /\ Len(chains[h]) > BlockSize
       /\ \E i \in PrimsOf(LastPass, h, 1) : ~LastPass.prims[i].is_box
       /\ PrimsOf(LastPass, h, 2) = {}
       /\ InPixelOf(h, 1, h, BlockSize + 1)
       /\ PrimsOf(LastPass, h, BlockSize + 1) # {}

(* The state a block's visit starts from, and the arguments of pass e. *)
BlockStartState ==
  ResetIgnore([depth |-> depth_, prims |-> <<>>, texts |-> texts,
               min_ignore |-> TickTypeMax, max_ignore |-> TickTypeMin])

ArgsOfPass(e) ==
  [min_tick |-> e.min_tick, max_tick |-> e.max_tick,
   is_collapsed |-> e.is_collapsed,
   box_height_div |-> ThreadTrack_BoxHeightDiv(e.is_collapsed)]

(* C27: for every record drawn as a line with pixel_delta_in_ticks p # 0,  *)
(* whatever its start, the ignore window after it is                       *)
(* [m + k * p, m + (k + 1) * p] for the minimum tick m and a k >= 0, and   *)
(* min_ignore <= start < max_ignore; with p = 0 the window is unchanged.   *)
C27_IgnoreWindowOnPixelGrid ==
  passes # <<>> =>
    \A h \in 1..Len(chains) : \A j \in 1..Len(chains[h]) :
      (\E i \in PrimsOf(LastPass, h, j) : ~LastPass.prims[i].is_box) =>
        LET st == VisitBox(BlockStartState, h, j, ArgsOfPass(LastPass))
            m == canvas.min_timegraph_tick
            p == PixelDeltaInTicks
        IN IF p # 0
             THEN /\ \E k \in 0..TickMod :
                       /\ st.min_ignore = m + k * p
                       /\ st.max_ignore = m + (k + 1) * p
                  /\ st.min_ignore <= chains[h][j].start
                  /\ chains[h][j].start < st.max_ignore
             ELSE /\ st.min_ignore = BlockStartState.min_ignore
                  /\ st.max_ignore = BlockStartState.max_ignore

(* The state of a pass whose ignore window is [lo, hi]. *)
StateWithIgnore(lo, hi) ==
  [BlockStartState EXCEPT !.min_ignore = lo, !.max_ignore = hi]

(* No record of another stage than "hw execution" precedes position k in   *)
(* its block.                                                              *)
OnlyOtherStagesBefore(h, k) ==
  \A j \in BlockStart(BlockOf(k))..(k - 1) :
    chains[h][j].stage # kHwExecutionString

(* C28: in a pass over a collapsed GpuTrack a record of another stage than *)
(* "hw execution" gives no primitive and leaves any ignore window as it    *)
(* was, and a "hw execution" record of the window that only such records   *)
(* precede in its block is drawn; in a pass over an expanded GpuTrack a    *)
(* record of the window is left out only for the ignore window of a line.  *)
C28_CollapsedDrawsOnlyHwExecution ==
  (passes # <<>> /\ track = "GpuTrack") =>
    \A h \in 1..Len(chains) : \A k \in 1..Len(chains[h]) :
      LET ti == chains[h][k]
          e == LastPass
      IN IF e.is_collapsed
           THEN /\ ti.stage # kHwExecutionString =>
                     /\ PrimsOf(e, h, k) = {}
                     /\ \A lo \in {0, TickTypeMax} : \A hi \in WideTicks :
                          LET st == VisitBox(StateWithIgnore(lo, hi), h, k,
                                             ArgsOfPass(e))
                          IN st.min_ignore = lo /\ st.max_ignore = hi
                /\ (/\ ti.stage = kHwExecutionString
                    /\ IntersectsWindow(e, ti)
                    /\ OnlyOtherStagesBefore(h, k)) => PrimsOf(e, h, k) # {}
           ELSE (IntersectsWindow(e, ti) /\ ~SuppressedByIgnoreWindow(e, h, k))
                   => PrimsOf(e, h, k) # {}

(* A collapsed pass met a "sw queue" record that would have been a line,   *)
(* drew nothing for it, and drew the "hw execution" record after it in the *)
(* same pixel.                                                             *)
C28_Witness ==
  /\ passes # <<>> /\ track = "GpuTrack" /\ LastPass.is_collapsed
  /\ PixelDeltaInTicks # 0
  /\ \E h \in 1..Len(chains) :
       /\ Len(chains[h]) >= 2
       /\ chains[h][1].stage = kSwQueueString
       /\ IntersectsWindow(LastPass, chains[h][1])
       /\ ~IsVisibleWidth(chains[h][1])
       /\ chains[h][2].stage = kHwExecutionString
       /\ InPixelOf(h, 1, h, 2)
       /\ PrimsOf(LastPass, h, 1) = {}
       /\ PrimsOf(LastPass, h, 2) # {}

(* Box b was drawn as a box by pass e. *)
DrawnAsBox(e, b) == \E i \in 1..Len(e.prims) :
                      e.prims[i].box = b /\ e.prims[i].is_box

(* C29: a text that is not empty is never changed, and a text becomes      *)
(* non-empty only in a pass over the expanded track that drew its record   *)
(* as a box.                                                               *)
C29_TextSetOnceForExpandedBoxes ==
  [][/\ \A b \in DOMAIN texts : b \in DOMAIN texts' /\ texts'[b] = texts[b]
     /\ \A b \in TextBoxes' :
          (b \notin DOMAIN texts /\ b \in DOMAIN texts') =>
            /\ passes' # <<>>
            /\ ~collapsed /\ ~collapsed'
            /\ \E c \in {b} : DrawnAsBox(LastPass, c)']_vars

(* A record whose text was set was met again by a pass that drew it as a   *)
(* line or that found the track collapsed.                                 *)
C29_Witness ==
  /\ passes # <<>>
  /\ \E b \in DOMAIN texts :
       /\ PrimsOf(LastPass, b[1], b[2]) # {}
       /\ LastPass.is_collapsed \/ ~DrawnAsBox(LastPass, b)

(* The extent [y, y + height] of a primitive lies in the row of one        *)
(* text-box height H: its offset mult * H / div is at most H and at least  *)
(* its height H / hdiv.                                                    *)
InCollapsedRow(prim) ==
  /\ prim.y.mult <= prim.y.div
  /\ prim.y.div <= prim.y.mult * prim.hdiv

(* C30: every primitive of a pass over a collapsed ThreadTrack lies in the *)
(* one row, and its height and its position are divided by the same        *)
(* depth_.                                                                 *)
C30_CollapsedRowOneDivisor ==
  (passes # <<>> /\ track = "ThreadTrack" /\ LastPass.is_collapsed) =>
    \A i \in 1..Len(LastPass.prims) :
      /\ InCollapsedRow(LastPass.prims[i])
      /\ LastPass.prims[i].y.div = LastPass.prims[i].hdiv

(* C31: in a pass, a record that intersects the visible window, is not     *)
(* dropped by the stage filter and is more than one pixel long is drawn,   *)
(* as a box, whatever lines were drawn before it.                          *)
C31_BoxesNeverSuppressed ==
  passes # <<>> =>
    \A h \in 1..Len(chains) : \A k \in 1..Len(chains[h]) :
      (/\ IntersectsWindow(LastPass, chains[h][k])
       /\ PassesStageFilter(LastPass, chains[h][k])
       /\ IsVisibleWidth(chains[h][k]))
        => \E i \in PrimsOf(LastPass, h, k) : LastPass.prims[i].is_box

(* A line was drawn, and a later record of its block that begins in the    *)
(* line's pixel and is more than one pixel long was drawn as a box.        *)
C31_Witness ==
  /\ passes # <<>>
  /\ PixelDeltaInTicks # 0
  /\ \E h \in 1..Len(chains) : \E k \in 2..Len(chains[h]) :
       /\ BlockOf(k) = BlockOf(k - 1)
       /\ \E i \in PrimsOf(LastPass, h, k - 1) : ~LastPass.prims[i].is_box
       /\ chains[h][k].start >= MinIgnoreOf(chains[h][k - 1])
       /\ chains[h][k].start < MaxIgnoreOf(chains[h][k - 1])
       /\ \E i \in PrimsOf(LastPass, h, k) : LastPass.prims[i].is_box

(* C32: GetHeight uses no more rows for the collapsed track than for the   *)
(* expanded track.                                                         *)
C32_CollapsedNoTaller == GetHeightDepth(TRUE) <= GetHeightDepth(FALSE)

====
